---- MODULE Spec2Model ----
(***************************************************************************)
(* fat32expander: in-place growth of a FAT32 filesystem.                   *)
(*                                                                         *)
(* The device is a sequence of sectors.  A sector is a record tagged by    *)
(* what its bytes decode to (boot sector, FSInfo, FAT sector, checkpoint   *)
(* record, cluster data, all-zero).  Copies move sectors verbatim, parsers *)
(* decode them the way the Rust code does.                                 *)
(*                                                                         *)
(* Scale.  TLC enumerates every sector of every image, so the geometry is  *)
(* scaled down: a sector holds 8 bytes (2 FAT entries) instead of 512..4096*)
(* and the FAT32 cluster-count floor is 2 instead of 65525.  A u32 is 30    *)
(* bits wide, so that a u64 device size beyond u32::MAX fits TLC's         *)
(* integers; signatures are byte strings and keep their source values.     *)
(* Every formula of the code is kept as written in the source.             *)
(***************************************************************************)
EXTENDS Integers, Sequences, FiniteSets, TLC

(* ---------------------------- bounds ----------------------------------- *)

\* largest device, in sectors
MaxDevSectors == 14
\* largest number of data clusters of an initial image
MaxClusters == 4
\* largest total_sectors of a boot sector handed to calculate_new_size alone
MaxCalcSectors == 20
\* number of process deaths per behaviour
MaxCrashes == 1
\* number of runs per behaviour that get as far as writing to the device
MaxRuns == 2
\* number of kills at the named protocol points per behaviour of the recovery
\* specification, and the number of runs after which its run counter wraps
MaxRecoveryKills == 1
MaxRecoveryRuns == 4

(* ------------------------ program constants ---------------------------- *)

\* BootSector::VALID_SIGNATURE (0xAA55)
VALID_SIGNATURE == 43605
\* FSInfo::LEAD_SIG (0x41615252), STRUC_SIG (0x61417272) and the high half of
\* TRAIL_SIG (0xAA550000, whose low half is zero)
LEAD_SIG == 1096897106
STRUC_SIG == 1631679090
TRAIL_SIG == 43605
\* FSInfo::UNKNOWN_FREE and u32::MAX: the all-ones word
UNKNOWN_FREE == 1073741823
U32_MAX == 1073741823
\* end-of-chain mark, low 28 bits (0x0FFFFFFF)
EOC == 268435455
\* media descriptor of a fixed disk
MEDIA_FIXED == 248
\* the FAT32 cluster-count floor (65525 in the source, scaled)
MinFat32Clusters == 2
\* bytes of one FAT32 entry
BytesPerEntry == 4
\* VALID_SECTOR_SIZES (512, 1024, 2048, 4096 in the source, scaled by 64)
VALID_SECTOR_SIZES == {8, 16, 32, 64}
\* CHECKPOINT_MAGIC, CHECKPOINT_VERSION
CHECKPOINT_MAGIC == "FAT32RSZ"
CHECKPOINT_VERSION == 1
\* bytes of a checkpoint record with its CRC (32 in the source, scaled to the
\* smallest sector)
CHECKPOINT_BYTES == 8
\* ResizePhase
Started == 0
DataCopied == 1
FatWritten == 2

(* ----------------------------- arithmetic ------------------------------ *)

CeilDiv(a, b) == (a + b - 1) \div b

\* u32::saturating_sub, u32::saturating_add
saturating_sub(a, b) == IF a > b THEN a - b ELSE 0
saturating_add(a, b) == IF a > U32_MAX - b THEN U32_MAX ELSE a + b

RECURSIVE Reverse(_)
Reverse(s) == IF s = <<>> THEN <<>> ELSE Append(Reverse(Tail(s)), Head(s))

(* ------------------------------ sectors -------------------------------- *)

Zero == [k |-> "zero"]
DataSector(c, i) == [k |-> "data", c |-> c, i |-> i]
FreeEntry == <<0, 0>>

\* a FAT sector of all-free entries is a sector of zero bytes
FatSector(es) ==
    IF \A j \in 1..Len(es) : es[j] = FreeEntry THEN Zero ELSE [k |-> "fat", e |-> es]

\* what BootSector::from_bytes sees in a sector that holds no boot sector:
\* every field reads as zero or as garbage no validation accepts
NotABoot ==
    [k |-> "boot", sig |-> 0, bps |-> 0, spc |-> 0, reserved |-> 0, nf |-> 0,
     rootent |-> 0, tot16 |-> 0, media |-> 0, fat16 |-> 0, total |-> 0,
     fatsz |-> 0, rootclus |-> 0, fsinfo |-> 0, backup |-> 0, label |-> 0]

\* BootSector::from_bytes: the raw sector, kept whole
BootSector_from_bytes(sec) == IF sec.k = "boot" THEN sec ELSE NotABoot

NotAnFSInfo ==
    [k |-> "fsinfo", lead |-> 0, struc |-> 0, trail |-> 0, free |-> 0, next |-> 0]

FSInfo_from_bytes(sec) == IF sec.k = "fsinfo" THEN sec ELSE NotAnFSInfo

(* ------------------------ BootSector accessors ------------------------- *)

is_signature_valid(b) == b.sig = VALID_SIGNATURE
invalidate_signature(b) == [b EXCEPT !.sig = 0]
\* the signature left as the danger window set it
restore_signature_forgotten(b) == b
restore_signature(b) == [b EXCEPT !.sig = VALID_SIGNATURE]
\* a setter that rebuilds the sector from its parsed fields and so loses the
\* bytes no accessor reads
set_total_sectors_32_rebuilt(b, n) == [b EXCEPT !.total = n, !.label = 0]
set_total_sectors_32(b, n) == [b EXCEPT !.total = n]
\* a set_fat_size_32 that leaves the field as it was
set_fat_size_32_forgotten(b, n) == b

set_fat_size_32(b, n) == [b EXCEPT !.fatsz = n]

total_sectors(b) == IF b.tot16 = 0 THEN b.total ELSE b.tot16
fat_size(b) == IF b.fat16 = 0 THEN b.fatsz ELSE b.fat16
first_fat_sector(b) == b.reserved
root_dir_sectors(b) == CeilDiv(b.rootent * 32, b.bps)
first_data_sector(b) == b.reserved + b.nf * fat_size(b) + root_dir_sectors(b)
data_sectors(b) == total_sectors(b) - b.reserved - b.nf * fat_size(b) - root_dir_sectors(b)
data_clusters(b) == data_sectors(b) \div b.spc
cluster_to_sector(b, c) == first_data_sector(b) + (c - 2) * b.spc

is_power_of_two(n) == n \in {1, 2, 4, 8, 16, 32, 64, 128}

\* an is_free that compares the whole entry with zero
is_free_unmasked(entry) == entry = <<0, 0>>

\* fat_entry::is_free: the low 28 bits are zero
is_free(entry) == entry[2] = 0

(* ------------------------------ validation ----------------------------- *)

validate_boot_sector_impl(b, allow_invalidated) ==
    IF b.sig # VALID_SIGNATURE /\ ~(allow_invalidated /\ b.sig = 0)
        THEN "BootSectorValidation"
    ELSE IF b.bps \notin VALID_SECTOR_SIZES THEN "BootSectorValidation"
    ELSE IF b.spc = 0 \/ ~is_power_of_two(b.spc) \/ b.spc > 128 THEN "BootSectorValidation"
    ELSE IF b.reserved = 0 THEN "BootSectorValidation"
    ELSE IF b.nf = 0 \/ b.nf > 2 THEN "BootSectorValidation"
    ELSE IF b.rootent # 0 THEN "InvalidFAT32"
    ELSE IF b.tot16 # 0 THEN "InvalidFAT32"
    ELSE IF b.fat16 # 0 THEN "InvalidFAT32"
    ELSE IF b.total = 0 THEN "BootSectorValidation"
    ELSE IF b.fatsz = 0 THEN "BootSectorValidation"
    ELSE IF b.rootclus < 2 THEN "BootSectorValidation"
    ELSE IF b.media # 240 /\ b.media \notin 248..255 THEN "BootSectorValidation"
    ELSE IF data_clusters(b) < MinFat32Clusters THEN "InvalidFAT32"
    ELSE "ok"

validate_fsinfo(f) ==
    IF f.lead # LEAD_SIG THEN "FSInfoValidation"
    ELSE IF f.struc # STRUC_SIG THEN "FSInfoValidation"
    ELSE IF f.trail # TRAIL_SIG THEN "FSInfoValidation"
    ELSE "ok"

boot_sectors_match(primary, backup) ==
    /\ primary.bps = backup.bps
    /\ primary.spc = backup.spc
    /\ primary.reserved = backup.reserved
    /\ primary.nf = backup.nf
    /\ primary.total = backup.total
    /\ primary.fatsz = backup.fatsz
    /\ primary.rootclus = backup.rootclus
    /\ primary.fsinfo = backup.fsinfo
    /\ primary.backup = backup.backup

(* ------------------------------ calculator ----------------------------- *)

\* calculate_fat_size: the Microsoft formula, FAT32 case
calculate_fat_size(total, reserved, nf, spc, bps) ==
    LET tmp_val1 == total - reserved
        entries_per_sector == bps \div BytesPerEntry
        tmp_val2 == entries_per_sector * spc + nf \div 2
    IN  IF tmp_val2 = 0 THEN [err |-> "Calculation", v |-> 0]
        ELSE IF CeilDiv(tmp_val1, tmp_val2) > U32_MAX THEN [err |-> "Calculation", v |-> 0]
        ELSE [err |-> "none", v |-> CeilDiv(tmp_val1, tmp_val2)]

NoCalculation ==
    [old_total_sectors |-> 0, new_total_sectors |-> 0, old_fat_size |-> 0,
     new_fat_size |-> 0, new_data_clusters |-> 0, new_free_clusters |-> 0,
     fat_needs_growth |-> FALSE, fat_growth_sectors |-> 0,
     first_affected_cluster |-> 0, last_affected_cluster |-> 0]

\* the calculation without the cap of the device size at u32::MAX
calculate_new_size_uncapped(b, device_sectors) ==
    LET new_fat_size == calculate_fat_size(device_sectors, b.reserved, b.nf, b.spc, b.bps).v
        new_data_clusters == (device_sectors - b.reserved - b.nf * new_fat_size) \div b.spc
    IN  IF device_sectors < total_sectors(b)
            THEN [err |-> "ShrinkNotSupported", calc |-> NoCalculation]
        ELSE IF device_sectors = total_sectors(b)
            THEN [err |-> "AlreadyMaxSize", calc |-> NoCalculation]
        ELSE IF new_data_clusters < MinFat32Clusters
            THEN [err |-> "Calculation", calc |-> NoCalculation]
        ELSE [err |-> "none",
              calc |-> [NoCalculation EXCEPT !.old_total_sectors = total_sectors(b),
                                             !.new_total_sectors = device_sectors,
                                             !.old_fat_size = fat_size(b),
                                             !.new_fat_size = new_fat_size,
                                             !.new_data_clusters = new_data_clusters]]

calculate_new_size(b, device_sectors) ==
    LET old_total_sectors == total_sectors(b)
        old_fat_size == fat_size(b)
        old_data_clusters == data_clusters(b)
        new_total_sectors == device_sectors
        fs == calculate_fat_size(new_total_sectors, b.reserved, b.nf, b.spc, b.bps)
        new_fat_size == fs.v
        new_data_sectors == new_total_sectors - b.reserved - b.nf * new_fat_size
        new_data_clusters == new_data_sectors \div b.spc
        fat_needs_growth == new_fat_size > old_fat_size
        fat_growth_sectors == saturating_sub(new_fat_size, old_fat_size)
        total_growth == fat_growth_sectors * b.nf
        affected_clusters == CeilDiv(total_growth, b.spc)
        additional_clusters == saturating_sub(new_data_clusters, old_data_clusters)
    IN  IF device_sectors > U32_MAX THEN [err |-> "Calculation", calc |-> NoCalculation]
        ELSE IF new_total_sectors < old_total_sectors
            THEN [err |-> "ShrinkNotSupported", calc |-> NoCalculation]
        ELSE IF new_total_sectors = old_total_sectors
            THEN [err |-> "AlreadyMaxSize", calc |-> NoCalculation]
        ELSE IF fs.err # "none" THEN [err |-> fs.err, calc |-> NoCalculation]
        ELSE IF new_data_clusters < MinFat32Clusters
            THEN [err |-> "Calculation", calc |-> NoCalculation]
        ELSE [err |-> "none",
              calc |-> [old_total_sectors |-> old_total_sectors,
                        new_total_sectors |-> new_total_sectors,
                        old_fat_size |-> old_fat_size,
                        new_fat_size |-> new_fat_size,
                        new_data_clusters |-> new_data_clusters,
                        new_free_clusters |-> additional_clusters,
                        fat_needs_growth |-> fat_needs_growth,
                        fat_growth_sectors |-> fat_growth_sectors,
                        first_affected_cluster |-> IF fat_needs_growth THEN 2 ELSE 0,
                        last_affected_cluster |->
                            IF fat_needs_growth THEN 2 + affected_clusters - 1 ELSE 0]]

\* calculate_data_clusters_from_params
calculate_data_clusters_from_params(total, reserved, nf, fatsz, spc) ==
    saturating_sub(saturating_sub(total, reserved), nf * fatsz) \div spc

(* --------------------------- checkpoint codec -------------------------- *)

\* crc32fast::hash over the first 28 bytes, as a perfect checksum of them
crc32(magic, version, phase, pad, ot, nt, of, nf) ==
    <<magic, version, phase, pad, ot, nt, of, nf>>

\* ResizeCheckpoint::new
ResizeCheckpoint(phase, ot, nt, of, nf) ==
    [some |-> TRUE, phase |-> phase, old_total_sectors |-> ot, new_total_sectors |-> nt,
     old_fat_size |-> of, new_fat_size |-> nf]

None == [some |-> FALSE]

\* the record with the two FAT sizes in each other's place
to_bytes_swapped(cp, sector_size) ==
    [k |-> "cp", magic |-> CHECKPOINT_MAGIC, version |-> CHECKPOINT_VERSION,
     phase |-> cp.phase, pad |-> 0,
     old_total_sectors |-> cp.old_total_sectors,
     new_total_sectors |-> cp.new_total_sectors,
     old_fat_size |-> cp.new_fat_size, new_fat_size |-> cp.old_fat_size,
     crc |-> crc32(CHECKPOINT_MAGIC, CHECKPOINT_VERSION, cp.phase, 0,
                   cp.old_total_sectors, cp.new_total_sectors,
                   cp.new_fat_size, cp.old_fat_size),
     tail |-> [j \in 1..(sector_size - CHECKPOINT_BYTES) |-> 0]]

\* ResizeCheckpoint::to_bytes: a buffer of sector_size bytes, zero after the
\* record
to_bytes(cp, sector_size) ==
    [k |-> "cp", magic |-> CHECKPOINT_MAGIC, version |-> CHECKPOINT_VERSION,
     phase |-> cp.phase, pad |-> 0,
     old_total_sectors |-> cp.old_total_sectors,
     new_total_sectors |-> cp.new_total_sectors,
     old_fat_size |-> cp.old_fat_size, new_fat_size |-> cp.new_fat_size,
     crc |-> crc32(CHECKPOINT_MAGIC, CHECKPOINT_VERSION, cp.phase, 0,
                   cp.old_total_sectors, cp.new_total_sectors,
                   cp.old_fat_size, cp.new_fat_size),
     tail |-> [j \in 1..(sector_size - CHECKPOINT_BYTES) |-> 0]]

\* data.len(): a buffer that is no checkpoint record is a whole sector, or
\* the first `len` bytes of one
byte_len(sec) ==
    IF sec.k = "cp" THEN CHECKPOINT_BYTES + Len(sec.tail)
    ELSE IF sec.k = "bytes" THEN sec.len
    ELSE CHECKPOINT_BYTES

\* the parse without the CRC comparison
from_bytes_unverified(sec) ==
    IF byte_len(sec) < CHECKPOINT_BYTES THEN [err |-> "none", cp |-> None]
    ELSE IF sec.k # "cp" THEN [err |-> "none", cp |-> None]
    ELSE IF sec.magic # CHECKPOINT_MAGIC THEN [err |-> "none", cp |-> None]
    ELSE IF sec.version # CHECKPOINT_VERSION THEN [err |-> "none", cp |-> None]
    ELSE IF sec.phase \notin {Started, DataCopied, FatWritten}
        THEN [err |-> "CheckpointCorrupted", cp |-> None]
    ELSE [err |-> "none",
          cp |-> ResizeCheckpoint(sec.phase, sec.old_total_sectors, sec.new_total_sectors,
                                  sec.old_fat_size, sec.new_fat_size)]

\* ResizeCheckpoint::from_bytes: Ok(None), Err(CheckpointCorrupted) or Ok(Some(cp))
from_bytes(sec) ==
    IF byte_len(sec) < CHECKPOINT_BYTES THEN [err |-> "none", cp |-> None]
    ELSE IF sec.k # "cp" THEN [err |-> "none", cp |-> None]
    ELSE IF sec.magic # CHECKPOINT_MAGIC THEN [err |-> "none", cp |-> None]
    ELSE IF sec.version # CHECKPOINT_VERSION THEN [err |-> "none", cp |-> None]
    ELSE IF sec.crc # crc32(sec.magic, sec.version, sec.phase, sec.pad,
                            sec.old_total_sectors, sec.new_total_sectors,
                            sec.old_fat_size, sec.new_fat_size)
        THEN [err |-> "CheckpointCorrupted", cp |-> None]
    ELSE IF sec.phase \notin {Started, DataCopied, FatWritten}
        THEN [err |-> "CheckpointCorrupted", cp |-> None]
    ELSE [err |-> "none",
          cp |-> ResizeCheckpoint(sec.phase, sec.old_total_sectors, sec.new_total_sectors,
                                  sec.old_fat_size, sec.new_fat_size)]

(* -------------------------------- device ------------------------------- *)

\* Device::read_sectors succeeds iff the whole range lies on the device
readable(d, start, count) == start + count <= Len(d)

\* sector `s` of the device (sectors are numbered from 0)
sector(d, s) == d[s + 1]

read_sectors(d, start, count) == [j \in 1..count |-> d[start + j]]

\* the sectors of `data` that land on a device of `len` sectors, written at `start`
Overlay(d, len, start, data) ==
    [j \in 1..len |->
        IF j - 1 >= start /\ j - 1 < start + Len(data) THEN data[j - start]
        ELSE IF j <= Len(d) THEN d[j]
        ELSE Zero]

\* Device::write_sectors (write_all_at).  An image file grows when written past
\* its end; a block device takes what fits and then fails.
write_sectors(d, kind, start, data) ==
    IF start + Len(data) <= Len(d)
        THEN [ok |-> TRUE, disk |-> Overlay(d, Len(d), start, data)]
    ELSE IF kind = "file"
        THEN [ok |-> TRUE, disk |-> Overlay(d, start + Len(data), start, data)]
    ELSE [ok |-> FALSE, disk |-> Overlay(d, Len(d), start, data)]

(* ------------------------------ FAT table ------------------------------ *)

\* the entries one sector decodes to
entries_of(sec, eps) ==
    IF sec.k = "fat" THEN sec.e
    ELSE IF sec.k = "zero" THEN [j \in 1..eps |-> FreeEntry]
    ELSE [j \in 1..eps |-> <<0, EOC>>]

RECURSIVE concat_entries(_, _, _, _)
concat_entries(d, first, count, eps) ==
    IF count = 0 THEN <<>>
    ELSE entries_of(sector(d, first), eps) \o concat_entries(d, first + 1, count - 1, eps)

\* read_fat_table: entry c of the result is fat[c + 1]
read_fat_table(d, b, fat_number) ==
    concat_entries(d, first_fat_sector(b) + fat_number * fat_size(b), fat_size(b),
                   b.bps \div BytesPerEntry)

RECURSIVE write_fat_entry_copies(_, _, _, _, _, _, _)
\* the loop of write_fat_entry_with_size over the FAT copies, from fat_num on
write_fat_entry_copies(d, knd, b, cluster, value, fatsz, fat_num) ==
    LET entries_per_sector == b.bps \div BytesPerEntry
        fat_start == first_fat_sector(b) + fat_num * fatsz
        sec == fat_start + cluster \div entries_per_sector
        offset == cluster % entries_per_sector
        sector_data == entries_of(sector(d, sec), entries_per_sector)
        existing == sector_data[offset + 1]
        \* (value & 0x0FFFFFFF) | (existing & 0xF0000000)
        new_value == <<existing[1], value[2]>>
        w == write_sectors(d, knd, sec,
                           <<FatSector([sector_data EXCEPT ![offset + 1] = new_value])>>)
    IN  IF fat_num >= b.nf THEN [ok |-> TRUE, disk |-> d]
        ELSE IF ~readable(d, sec, 1) THEN [ok |-> FALSE, disk |-> d]
        ELSE IF ~w.ok THEN w
        ELSE write_fat_entry_copies(w.disk, knd, b, cluster, value, fatsz, fat_num + 1)

\* write_fat_entry_with_size: one entry, in every FAT copy
write_fat_entry_with_size(d, knd, b, cluster, value, fatsz) ==
    write_fat_entry_copies(d, knd, b, cluster, value, fatsz, 0)

write_fat_entry(d, knd, b, cluster, value) ==
    write_fat_entry_with_size(d, knd, b, cluster, value, fat_size(b))

RECURSIVE write_fat_entries_from(_, _, _, _, _, _, _)
\* the loop of write_fat_entries over the sectors, from sector_idx on
write_fat_entries_from(d, knd, b, fat_number, start_entry, entries, sector_idx) ==
    LET entries_per_sector == b.bps \div BytesPerEntry
        fat_start == first_fat_sector(b) + fat_number * fat_size(b)
        end_entry == start_entry + Len(entries)
        end_sector == CeilDiv(end_entry, entries_per_sector)
        sec == fat_start + sector_idx
        sector_start_entry == sector_idx * entries_per_sector
        old == entries_of(sector(d, sec), entries_per_sector)
        sector_data ==
            [j \in 1..entries_per_sector |->
                LET entry_idx == sector_start_entry + j - 1
                IN  IF entry_idx >= start_entry /\ entry_idx < end_entry
                        THEN entries[entry_idx - start_entry + 1]
                    ELSE old[j]]
        w == write_sectors(d, knd, sec, <<FatSector(sector_data)>>)
    IN  IF sector_idx >= end_sector THEN [ok |-> TRUE, disk |-> d]
        ELSE IF ~readable(d, sec, 1) THEN [ok |-> FALSE, disk |-> d]
        ELSE IF ~w.ok THEN w
        ELSE write_fat_entries_from(w.disk, knd, b, fat_number, start_entry, entries,
                                    sector_idx + 1)

\* write_fat_entries: a run of entries of one FAT copy, sector by sector
write_fat_entries(d, knd, b, fat_number, start_entry, entries) ==
    write_fat_entries_from(d, knd, b, fat_number, start_entry, entries,
                           start_entry \div (b.bps \div BytesPerEntry))

(* ------------------------------- relocator ----------------------------- *)

RECURSIVE collect_moves(_, _, _, _, _, _)
\* the loop of plan_relocation over cluster .. old_max_cluster - 1
collect_moves(cluster, old_max_cluster, fat, old_first, new_first, spc) ==
    IF cluster >= old_max_cluster \/ cluster >= Len(fat) THEN <<>>
    ELSE LET old_sector == old_first + (cluster - 2) * spc
             new_sector == new_first + (cluster - 2) * spc
             rest == collect_moves(cluster + 1, old_max_cluster, fat, old_first, new_first, spc)
         IN  IF is_free(fat[cluster + 1]) \/ old_sector = new_sector THEN rest
             ELSE <<[from_cluster |-> cluster, to_cluster |-> cluster,
                     from_sector |-> old_sector, to_sector |-> new_sector]>> \o rest

\* a plan_relocation that leaves the moves in ascending cluster order
plan_relocation_ascending(b, fat, first_affected, last_affected) ==
    collect_moves(first_affected, data_clusters(b) + 2, fat, first_data_sector(b),
                  first_data_sector(b) + (last_affected - first_affected + 1) * b.spc,
                  b.spc)

\* plan_relocation: the moves, highest cluster first
plan_relocation(b, fat, first_affected, last_affected) ==
    LET old_first_data_sector == first_data_sector(b)
        affected_clusters == last_affected - first_affected + 1
        shift_sectors == affected_clusters * b.spc
        new_first_data_sector == old_first_data_sector + shift_sectors
        old_max_cluster == data_clusters(b) + 2
    IN  Reverse(collect_moves(first_affected, old_max_cluster, fat,
                              old_first_data_sector, new_first_data_sector, b.spc))

\* the RelocationPlan plan_relocation returns
relocation_plan(b, fat, first_affected, last_affected) ==
    LET moves == plan_relocation(b, fat, first_affected, last_affected)
    IN  [moves |-> moves,
         total_bytes |-> Len(moves) * (b.bps * b.spc),
         old_first_data_sector |-> first_data_sector(b),
         new_first_data_sector |->
             first_data_sector(b) + (last_affected - first_affected + 1) * b.spc]

(* --------------------------- startup of a run -------------------------- *)

\* read_checkpoint: the last sector of the device, if the device is larger
\* than the filesystem
read_checkpoint(d, b, device_total) ==
    IF device_total <= total_sectors(b) THEN [err |-> "none", cp |-> None]
    ELSE from_bytes(sector(d, device_total - 1))

check_for_incomplete_resize(d, b, device_total) ==
    IF ~is_signature_valid(b)
        THEN IF device_total <= total_sectors(b)
                 THEN [err |-> "InvalidatedFilesystem", cp |-> None]
             ELSE LET r == from_bytes(sector(d, device_total - 1))
                  IN  IF r.err # "none" THEN r
                      ELSE IF r.cp.some THEN r
                      ELSE [err |-> "InvalidatedFilesystem", cp |-> None]
    ELSE read_checkpoint(d, b, device_total)

\* a rebuilt SizeCalculation whose affected range is the single cluster 2
calculation_from_checkpoint_one_cluster(cp, b) ==
    [old_total_sectors |-> cp.old_total_sectors,
     new_total_sectors |-> cp.new_total_sectors,
     old_fat_size |-> cp.old_fat_size,
     new_fat_size |-> cp.new_fat_size,
     new_data_clusters |->
         calculate_data_clusters_from_params(cp.new_total_sectors, b.reserved, b.nf,
                                             cp.new_fat_size, b.spc),
     new_free_clusters |-> 0,
     fat_needs_growth |-> cp.new_fat_size > cp.old_fat_size,
     fat_growth_sectors |-> saturating_sub(cp.new_fat_size, cp.old_fat_size),
     first_affected_cluster |-> 2,
     last_affected_cluster |-> 2]

\* the SizeCalculation a resumed run rebuilds from the checkpoint
calculation_from_checkpoint(cp, b) ==
    [old_total_sectors |-> cp.old_total_sectors,
     new_total_sectors |-> cp.new_total_sectors,
     old_fat_size |-> cp.old_fat_size,
     new_fat_size |-> cp.new_fat_size,
     new_data_clusters |->
         calculate_data_clusters_from_params(cp.new_total_sectors, b.reserved, b.nf,
                                             cp.new_fat_size, b.spc),
     new_free_clusters |-> 0,
     fat_needs_growth |-> cp.new_fat_size > cp.old_fat_size,
     fat_growth_sectors |-> saturating_sub(cp.new_fat_size, cp.old_fat_size),
     first_affected_cluster |-> 2,
     last_affected_cluster |->
         2 + CeilDiv(saturating_sub(cp.new_fat_size, cp.old_fat_size) * b.nf, b.spc) - 1]

\* a return that wipes the checkpoint sector when the run fails
Return_with_cleanup(m, r) ==
    [m EXCEPT !.pc = "idle", !.result = r,
              !.boot = NotABoot, !.fsinfo = NotAnFSInfo, !.plan = <<>>,
              !.calculation = IF r = "Ok" THEN @ ELSE NoCalculation,
              !.starting_phase = Started, !.device_total = 0, !.i = 0, !.fat_num = 0,
              !.disk = IF r \notin {"Ok", "killed"} /\ Len(@) > 0
                          THEN [@ EXCEPT ![Len(@)] = Zero] ELSE @,
              !.nwrites = IF r \notin {"Ok", "killed"} /\ Len(m.disk) > 0
                             THEN @ + 1 ELSE @]

\* the state of the process between runs; a ResizeResult keeps the calculation
Return(m, r) ==
    [m EXCEPT !.pc = "idle", !.result = r,
              !.boot = NotABoot, !.fsinfo = NotAnFSInfo, !.plan = <<>>,
              !.calculation = IF r = "Ok" THEN @ ELSE NoCalculation,
              !.starting_phase = Started, !.device_total = 0, !.i = 0, !.fat_num = 0]

\* phase 1 entered whether or not the FAT grows
first_step_without_growth_guard(dry_run, calc, plan, starting_phase) ==
    IF dry_run THEN "return"
    ELSE IF plan # <<>>
        THEN IF starting_phase = Started THEN "checkpoint_started"
             ELSE IF starting_phase <= DataCopied THEN "invalidate"
             ELSE "write_boot"
    ELSE "invalidate"

\* a resumed run that starts over whatever phase its checkpoint has
first_step_from_start(dry_run, calc, plan, starting_phase) ==
    IF dry_run THEN "return"
    ELSE IF calc.fat_needs_growth /\ plan # <<>> THEN "checkpoint_started"
    ELSE "write_boot"

\* phase 2 left outside the dry_run guard
first_step_unguarded(dry_run, calc, plan, starting_phase) ==
    IF calc.fat_needs_growth /\ plan # <<>> /\ ~dry_run
        THEN IF starting_phase = Started THEN "checkpoint_started"
             ELSE IF starting_phase <= DataCopied THEN "invalidate"
             ELSE "write_boot"
    ELSE "write_boot"

\* where resize_fat32 goes once its reads and calculations are done: the
\* dry_run guards, the fat_needs_growth / plan.is_empty() guards and the
\* starting_phase guards
first_step(dry_run, calc, plan, starting_phase) ==
    IF dry_run THEN "return"
    ELSE IF calc.fat_needs_growth /\ plan # <<>>
        THEN IF starting_phase = Started THEN "checkpoint_started"
             ELSE IF starting_phase <= DataCopied THEN "invalidate"
             ELSE "write_boot"
    ELSE "write_boot"

\* resize_fat32 from its entry to the first device write (or to its return)
resize_fat32(m, dry_run, mounted) ==
    LET d == m.disk
        device_total == Len(d)
        b == BootSector_from_bytes(sector(d, 0))
        vb == validate_boot_sector_impl(b, TRUE)
        inc == IF ~dry_run THEN check_for_incomplete_resize(d, b, device_total)
               ELSE [err |-> "none", cp |-> None]
        backup_boot == BootSector_from_bytes(sector(d, b.backup))
        fsi == FSInfo_from_bytes(sector(d, b.fsinfo))
        cs == IF inc.cp.some
                  THEN [err |-> "none", calc |-> calculation_from_checkpoint(inc.cp, b)]
              ELSE calculate_new_size(b, device_total)
        fat == read_fat_table(d, b, 0)
        plan == IF cs.calc.fat_needs_growth
                    THEN plan_relocation(b, fat, cs.calc.first_affected_cluster,
                                         cs.calc.last_affected_cluster)
                ELSE <<>>
        starting_phase == IF inc.cp.some THEN inc.cp.phase ELSE Started
        m1 == [m EXCEPT !.nwrites = 0, !.dry_run = dry_run]
        go == first_step(dry_run, cs.calc, plan, starting_phase)
    IN  IF mounted THEN Return(m1, "DeviceMounted")
        ELSE IF device_total = 0 THEN Return(m1, "Io")
        ELSE IF b.bps \notin VALID_SECTOR_SIZES THEN Return(m1, "UnsupportedSectorSize")
        ELSE IF vb # "ok" THEN Return(m1, vb)
        ELSE IF inc.err # "none" THEN Return(m1, inc.err)
        ELSE IF inc.cp.some /\ device_total < inc.cp.new_total_sectors
            THEN Return(m1, "ResizeSizeMismatch")
        ELSE IF ~readable(d, b.backup, 1) THEN Return(m1, "Io")
        ELSE IF is_signature_valid(b) /\ ~boot_sectors_match(b, backup_boot)
            THEN Return(m1, "BackupMismatch")
        ELSE IF ~readable(d, b.fsinfo, 1) THEN Return(m1, "Io")
        ELSE IF validate_fsinfo(fsi) # "ok" THEN Return(m1, validate_fsinfo(fsi))
        ELSE IF cs.err # "none" THEN Return(m1, cs.err)
        ELSE IF ~readable(d, first_fat_sector(b), fat_size(b)) THEN Return(m1, "Io")
        ELSE IF go = "return"
            THEN Return([m1 EXCEPT !.calculation = cs.calc], "Ok")
        ELSE [m1 EXCEPT !.pc = go, !.result = "running", !.boot = b, !.fsinfo = fsi,
                        !.calculation = cs.calc, !.plan = plan,
                        !.starting_phase = starting_phase,
                        !.device_total = device_total, !.i = 0, !.fat_num = 0]

(* --------------------------- steps of a run ---------------------------- *)

\* one device write was issued: on success go on as `next` says, on an I/O
\* error return it
wrote(m, w, next) ==
    IF w.ok THEN [next EXCEPT !.disk = w.disk, !.nwrites = m.nwrites + 1]
    ELSE Return([m EXCEPT !.disk = w.disk, !.nwrites = m.nwrites + 1], "Io")

\* a sync that returns without flushing anything
sync_skipped(m, next_pc) == [m EXCEPT !.pc = next_pc]

\* Device::sync
sync(m, next_pc) == [m EXCEPT !.durable = m.disk, !.pc = next_pc]

\* the device.write_sector of write_checkpoint
write_checkpoint(m, phase, next_pc) ==
    LET c == m.calculation
        cp == ResizeCheckpoint(phase, c.old_total_sectors, c.new_total_sectors,
                               c.old_fat_size, c.new_fat_size)
    IN  wrote(m, write_sectors(m.disk, m.kind, m.device_total - 1,
                            <<to_bytes(cp, m.boot.bps)>>),
              [m EXCEPT !.pc = next_pc])

\* one iteration of the loop of execute_relocation
execute_relocation_move(m) ==
    LET mv == m.plan[m.i]
        spc == m.boot.spc
    IN  IF ~readable(m.disk, mv.from_sector, spc) THEN Return(m, "Io")
        ELSE wrote(m, write_sectors(m.disk, m.kind, mv.to_sector,
                                    read_sectors(m.disk, mv.from_sector, spc)),
                   IF m.i = Len(m.plan) THEN [m EXCEPT !.pc = "sync_shift"]
                   ELSE [m EXCEPT !.i = m.i + 1])

\* boot.invalidate_signature(); write_boot_sector
invalidate_boot(m) ==
    LET b == invalidate_signature(m.boot)
    IN  wrote(m, write_sectors(m.disk, m.kind, 0, <<b>>),
              [m EXCEPT !.boot = b, !.pc = "sync_invalidate"])

\* where the FAT work continues after the new FAT-0 sectors are zeroed
after_init(m) ==
    IF m.boot.nf > 1 THEN [m EXCEPT !.pc = "sync_fat", !.fat_num = 1, !.i = 0]
    ELSE [m EXCEPT !.pc = "checkpoint_fat_written"]

\* the sync after the invalidating boot write, then into init_new_fat_sectors
sync_invalidate(m) ==
    LET s == sync(m, "init_fat")
    IN  IF m.calculation.new_fat_size <= m.calculation.old_fat_size THEN after_init(s)
        ELSE [s EXCEPT !.i = m.calculation.old_fat_size]

\* one iteration of the loop of init_new_fat_sectors
init_new_fat_sector(m) ==
    wrote(m, write_sectors(m.disk, m.kind, first_fat_sector(m.boot) + m.i, <<Zero>>),
          IF m.i + 1 = m.calculation.new_fat_size THEN after_init(m)
          ELSE [m EXCEPT !.i = m.i + 1])

\* one iteration of the inner loop of sync_fat_copies
sync_fat_copy_sector(m) ==
    LET fat1_start == first_fat_sector(m.boot)
        fat_dest_start == fat1_start + m.fat_num * m.calculation.new_fat_size
        src_sector == fat1_start + m.i
        dest_sector == fat_dest_start + m.i
    IN  IF ~readable(m.disk, src_sector, 1) THEN Return(m, "Io")
        ELSE wrote(m, write_sectors(m.disk, m.kind, dest_sector,
                                    <<sector(m.disk, src_sector)>>),
                   IF m.i + 1 < m.calculation.new_fat_size THEN [m EXCEPT !.i = m.i + 1]
                   ELSE IF m.fat_num + 1 < m.boot.nf
                       THEN [m EXCEPT !.fat_num = m.fat_num + 1, !.i = 0]
                   ELSE [m EXCEPT !.pc = "checkpoint_fat_written"])

\* phase 2: new totals, restored signature, write_boot_sector
write_boot_sector(m) ==
    LET b == restore_signature(
                 set_fat_size_32(
                     set_total_sectors_32(m.boot, m.calculation.new_total_sectors),
                     m.calculation.new_fat_size))
    IN  wrote(m, write_sectors(m.disk, m.kind, 0, <<b>>),
              [m EXCEPT !.boot = b, !.pc = "write_backup"])

write_backup_boot_sector(m) ==
    wrote(m, write_sectors(m.disk, m.kind, m.boot.backup, <<m.boot>>),
          [m EXCEPT !.pc = "write_fsinfo"])

\* the estimate of calculate_new_size stored instead of old_free + additional
new_free_count_estimate(m) == m.calculation.new_free_clusters

\* the free count phase 2 stores in FSInfo
new_free_count(m) ==
    LET c == m.calculation
        old_free == m.fsinfo.free
        old_data_clusters ==
            (c.old_total_sectors - m.boot.reserved - m.boot.nf * c.old_fat_size)
                \div m.boot.spc
        additional_clusters == saturating_sub(c.new_data_clusters, old_data_clusters)
    IN  IF old_free = UNKNOWN_FREE THEN UNKNOWN_FREE
        ELSE saturating_add(old_free, additional_clusters)

write_fsinfo(m) ==
    LET f == [m.fsinfo EXCEPT !.free = new_free_count(m)]
    IN  wrote(m, write_sectors(m.disk, m.kind, m.boot.fsinfo, <<f>>),
              [m EXCEPT !.fsinfo = f, !.pc = "clear_checkpoint"])

clear_checkpoint(m) ==
    wrote(m, write_sectors(m.disk, m.kind, m.device_total - 1, <<Zero>>),
          [m EXCEPT !.pc = "final_sync"])

\* the final device.sync and the Ok return
final_sync(m) == Return(sync(m, "idle"), "Ok")

\* the next device operation of a run
step(m) ==
    CASE m.pc = "checkpoint_started" -> write_checkpoint(m, Started, "sync_started")
      [] m.pc = "sync_started" -> [sync(m, "shift") EXCEPT !.i = 1]
      [] m.pc = "shift" -> execute_relocation_move(m)
      [] m.pc = "sync_shift" -> sync(m, "checkpoint_data_copied")
      [] m.pc = "checkpoint_data_copied" -> write_checkpoint(m, DataCopied, "sync_data_copied")
      [] m.pc = "sync_data_copied" -> sync(m, "invalidate")
      [] m.pc = "invalidate" -> invalidate_boot(m)
      [] m.pc = "sync_invalidate" -> sync_invalidate(m)
      [] m.pc = "init_fat" -> init_new_fat_sector(m)
      [] m.pc = "sync_fat" -> sync_fat_copy_sector(m)
      [] m.pc = "checkpoint_fat_written" -> write_checkpoint(m, FatWritten, "sync_fat_written")
      [] m.pc = "sync_fat_written" -> sync(m, "write_boot")
      [] m.pc = "write_boot" -> write_boot_sector(m)
      [] m.pc = "write_backup" -> write_backup_boot_sector(m)
      [] m.pc = "write_fsinfo" -> write_fsinfo(m)
      [] m.pc = "clear_checkpoint" -> clear_checkpoint(m)
      [] m.pc = "final_sync" -> final_sync(m)

RECURSIVE run_to_end(_)
\* a run that nothing interrupts
run_to_end(m) == IF m.pc = "idle" THEN m ELSE run_to_end(step(m))

(* ------------------------------- images -------------------------------- *)

\* a boot sector of the given geometry; sector 1 is FSInfo, sector 2 the backup
BootOf(g) ==
    [k |-> "boot", sig |-> VALID_SIGNATURE, bps |-> 8, spc |-> g.spc, reserved |-> 3,
     nf |-> g.nf, rootent |-> 0, tot16 |-> 0, media |-> MEDIA_FIXED, fat16 |-> 0,
     total |-> 3 + g.nf * g.fatsz + g.n * g.spc + g.slack, fatsz |-> g.fatsz,
     rootclus |-> 2, fsinfo |-> 1, backup |-> 2, label |-> 7]

FSInfoOf(free) ==
    [k |-> "fsinfo", lead |-> LEAD_SIG, struc |-> STRUC_SIG, trail |-> TRAIL_SIG,
     free |-> free, next |-> 2]

\* entry c of a FAT in which exactly the clusters `used` are allocated
EntryOf(c, used) ==
    IF c = 0 THEN <<0, EOC - 7>> ELSE IF c = 1 THEN <<0, EOC>>
    ELSE IF c \in used THEN <<0, EOC>> ELSE FreeEntry

\* sector s of a consistent filesystem with boot sector b
ImageSector(s, b, used, free) ==
    LET eps == b.bps \div BytesPerEntry
        fo == (s - b.reserved) % b.fatsz
        ds == s - first_data_sector(b)
        c == 2 + ds \div b.spc
    IN  IF s = 0 THEN b
        ELSE IF s = b.fsinfo THEN FSInfoOf(free)
        ELSE IF s = b.backup THEN b
        ELSE IF s < b.reserved THEN Zero
        ELSE IF s < first_data_sector(b)
            THEN FatSector([j \in 1..eps |-> EntryOf(fo * eps + j - 1, used)])
        ELSE IF s < b.total /\ c \in used THEN DataSector(c, ds % b.spc)
        ELSE Zero

\* what is wrong with an image the tool must refuse
Defect(d, what) ==
    CASE what = "none" -> d
      [] what = "signature" -> [d EXCEPT ![1].sig = 4660]
      [] what = "sector_size" -> [d EXCEPT ![1].bps = 12]
      [] what = "fat16" -> [d EXCEPT ![1].fat16 = 1]
      [] what = "backup" -> [d EXCEPT ![3].total = d[3].total - 1]
      [] what = "fsinfo" -> [d EXCEPT ![2].lead = 0]
      [] what = "checkpoint_crc" ->
            [d EXCEPT ![Len(d)] =
                [to_bytes(ResizeCheckpoint(Started, d[1].total, Len(d), d[1].fatsz,
                                           d[1].fatsz + 1), d[1].bps) EXCEPT !.crc = <<>>]]
      [] what = "checkpoint_size" ->
            [d EXCEPT ![Len(d)] =
                to_bytes(ResizeCheckpoint(Started, d[1].total, Len(d) + 1, d[1].fatsz,
                                          d[1].fatsz + 1), d[1].bps)]

Defects ==
    {"none", "signature", "sector_size", "fat16", "backup", "fsinfo",
     "checkpoint_crc", "checkpoint_size"}

\* the geometries of the model: n data clusters, a FAT with an entry for every
\* cluster (as tight as mkfs makes it, or one sector larger), up to spc - 1
\* sectors of slack after the last cluster
Geometries ==
    { g \in [spc : {1, 2}, nf : {1, 2}, n : MinFat32Clusters..MaxClusters,
             fatsz : 1..MaxDevSectors, slack : {0, 1}] :
        /\ g.slack < g.spc
        /\ g.fatsz * 2 >= g.n + 2
        /\ g.fatsz <= CeilDiv(g.n + 2, 2) + 1
        /\ 3 + g.nf * g.fatsz + g.n * g.spc + g.slack <= MaxDevSectors }

\* every device the model starts from: a filesystem in which the root
\* directory (cluster 2) is allocated, on a block device or in an image file
\* of dev sectors; the defective images are variants of the smallest ones
ImageChoices(g) ==
    { c \in [used : { u \in SUBSET (2..(g.n + 1)) : 2 \in u },
             dev : (BootOf(g).total - 1)..MaxDevSectors,
             unknown : BOOLEAN, kind : {"block", "file"}, what : Defects] :
        /\ c.unknown => c.used = {2}
        /\ c.what # "none" =>
            g.n = MinFat32Clusters /\ g.spc = 1 /\ c.used = {2} /\ ~c.unknown
        /\ c.what \in {"checkpoint_crc", "checkpoint_size"} => c.dev > BootOf(g).total }

ImageOf(g, c) ==
    [disk |-> Defect([j \in 1..c.dev |->
                         ImageSector(j - 1, BootOf(g), c.used,
                                     IF c.unknown THEN UNKNOWN_FREE
                                     ELSE g.n - Cardinality(c.used))], c.what),
     kind |-> c.kind]

Images == UNION { { ImageOf(g, c) : c \in ImageChoices(g) } : g \in Geometries }

(* ------------------------------- state --------------------------------- *)

VARIABLES
    disk,            \* the device as the process reads it: every write issued so far
    durable,         \* the device as of the last completed sync
    kind,            \* "block" device or image "file"
    pc,              \* the device operation the running resize_fat32 issues next
    result,          \* what the last run returned, "running", "killed" or "none"
    dry_run,         \* ResizeOptions.dry_run of the current run
    boot,            \* the in-memory boot sector
    fsinfo,          \* the in-memory FSInfo
    calculation,     \* the SizeCalculation
    plan,            \* RelocationPlan.moves
    starting_phase,  \* the phase of the checkpoint found at startup, or Started
    device_total,    \* Device.total_sectors, fixed when the device was opened
    i,               \* index of the running loop
    fat_num,         \* FAT copy being written by sync_fat_copies
    nwrites,         \* device writes issued by the current run
    run_start,       \* the device when the current run began
    attempts,        \* runs so far that got as far as writing to the device
    crashes,         \* process deaths so far
    death,           \* where the last process death happened
    image0,          \* the device the behaviour started from
    expected,        \* where one uninterrupted run takes image0
    call             \* the command line or library call under examination

vars == <<disk, durable, kind, pc, result, dry_run, boot, fsinfo, calculation, plan,
          starting_phase, device_total, i, fat_num, nwrites, run_start, attempts,
          crashes, death, image0, expected, call>>

\* the process and its device as one record, the form the steps work on
Cur ==
    [disk |-> disk, durable |-> durable, kind |-> kind, pc |-> pc, result |-> result,
     dry_run |-> dry_run, boot |-> boot, fsinfo |-> fsinfo, calculation |-> calculation,
     plan |-> plan, starting_phase |-> starting_phase, device_total |-> device_total,
     i |-> i, fat_num |-> fat_num, nwrites |-> nwrites]

Idle(d, knd) ==
    [disk |-> d, durable |-> d, kind |-> knd, pc |-> "idle", result |-> "none",
     dry_run |-> FALSE, boot |-> NotABoot, fsinfo |-> NotAnFSInfo,
     calculation |-> NoCalculation, plan |-> <<>>, starting_phase |-> Started,
     device_total |-> 0, i |-> 0, fat_num |-> 0, nwrites |-> 0]

\* the named points of maybe_crash_at, as positions of the run
crash_point(m) ==
    IF m.pc = "shift" /\ m.i = 1 THEN "after_checkpoint_start"
    ELSE IF m.pc = "checkpoint_data_copied" THEN "after_data_shift"
    ELSE IF m.pc = "invalidate" /\ m.starting_phase = Started
        THEN "after_checkpoint_data_copied"
    ELSE IF m.pc = "init_fat" /\ m.i = m.calculation.old_fat_size
        THEN "after_boot_invalidate"
    ELSE IF m.pc = "checkpoint_fat_written" THEN "after_fat_write"
    ELSE IF m.pc = "write_boot" /\ m.starting_phase <= DataCopied
            /\ m.calculation.fat_needs_growth /\ m.plan # <<>>
        THEN "after_checkpoint_fat_written"
    ELSE "elsewhere"

\* the clusters whose entry in FAT 0 of the filesystem on d is not free
in_use(d) ==
    LET b == BootSector_from_bytes(sector(d, 0))
        fat == read_fat_table(d, b, 0)
    IN  { c \in 2..(data_clusters(b) + 1) : c < Len(fat) /\ ~is_free(fat[c + 1]) }

\* d still holds the filesystem of image0: its reserved sectors and FATs are
\* as they were and every cluster in use is where it was
OldFilesystemIntact(d) ==
    LET b == BootSector_from_bytes(sector(image0, 0))
    IN  /\ Len(d) >= Len(image0)
        /\ \A s \in 0..(first_data_sector(b) - 1) : sector(d, s) = sector(image0, s)
        /\ \A c \in in_use(image0) : \A k \in 0..(b.spc - 1) :
                sector(d, cluster_to_sector(b, c) + k)
                    = sector(image0, cluster_to_sector(b, c) + k)

\* resize_fat32 called as a library function, as the integration tests do
NoCall == [fn |-> "resize_fat32"]

\* no process death yet
NoDeath == [how |-> "never", at |-> "never", attempt |-> 0, intact |-> TRUE,
            cp |-> None, shrunk |-> FALSE]

\* the checkpoint in the sector write_checkpoint uses, if d holds one there
checkpoint_on(d, sectors) ==
    IF sectors >= 1 /\ sectors <= Len(d) THEN from_bytes(sector(d, sectors - 1)).cp
    ELSE None

Install(m) ==
    /\ disk' = m.disk
    /\ durable' = m.durable
    /\ kind' = m.kind
    /\ pc' = m.pc
    /\ result' = m.result
    /\ dry_run' = m.dry_run
    /\ boot' = m.boot
    /\ fsinfo' = m.fsinfo
    /\ calculation' = m.calculation
    /\ plan' = m.plan
    /\ starting_phase' = m.starting_phase
    /\ device_total' = m.device_total
    /\ i' = m.i
    /\ fat_num' = m.fat_num
    /\ nwrites' = m.nwrites

Init ==
    \E img \in Images :
        /\ disk = img.disk
        /\ durable = img.disk
        /\ kind = img.kind
        /\ pc = "idle"
        /\ result = "none"
        /\ dry_run = FALSE
        /\ boot = NotABoot
        /\ fsinfo = NotAnFSInfo
        /\ calculation = NoCalculation
        /\ plan = <<>>
        /\ starting_phase = Started
        /\ device_total = 0
        /\ i = 0
        /\ fat_num = 0
        /\ nwrites = 0
        /\ run_start = img.disk
        /\ attempts = 0
        /\ crashes = 0
        /\ death = NoDeath
        /\ image0 = img.disk
        /\ expected = LET e == run_to_end(resize_fat32(Idle(img.disk, img.kind), FALSE, FALSE))
                      IN  [disk |-> e.disk, result |-> e.result,
                           calculation |-> e.calculation]
        /\ call = NoCall

(* ------------------------------- actions ------------------------------- *)

\* resize_fat32 is invoked: everything up to its first device write
StartResize ==
    /\ pc = "idle"
    /\ \E dry \in BOOLEAN, mounted \in BOOLEAN :
        LET m == resize_fat32(Cur, dry, mounted)
        IN  /\ m.pc # "idle" => attempts < MaxRuns
            /\ Install(m)
            /\ attempts' = IF m.pc # "idle" THEN attempts + 1 ELSE attempts
    /\ run_start' = disk
    /\ UNCHANGED <<crashes, death, image0, expected, call>>

\* write_checkpoint: the checkpoint record goes to the last sector
WriteCheckpoint ==
    /\ pc \in {"checkpoint_started", "checkpoint_data_copied", "checkpoint_fat_written"}
    /\ Install(step(Cur))
    /\ UNCHANGED <<run_start, attempts, crashes, death, image0, expected, call>>

\* write_checkpoint: the sync after the record
SyncCheckpoint ==
    /\ pc \in {"sync_started", "sync_data_copied", "sync_fat_written"}
    /\ Install(step(Cur))
    /\ UNCHANGED <<run_start, attempts, crashes, death, image0, expected, call>>

\* execute_relocation: one cluster is copied to its shifted position
ShiftCluster ==
    /\ pc = "shift"
    /\ Install(step(Cur))
    /\ UNCHANGED <<run_start, attempts, crashes, death, image0, expected, call>>

\* execute_relocation: the sync after the loop
SyncShift ==
    /\ pc = "sync_shift"
    /\ Install(step(Cur))
    /\ UNCHANGED <<run_start, attempts, crashes, death, image0, expected, call>>

\* phase 1: the boot sector is written with its signature zeroed
InvalidateBoot ==
    /\ pc = "invalidate"
    /\ Install(step(Cur))
    /\ UNCHANGED <<run_start, attempts, crashes, death, image0, expected, call>>

SyncInvalidate ==
    /\ pc = "sync_invalidate"
    /\ Install(step(Cur))
    /\ UNCHANGED <<run_start, attempts, crashes, death, image0, expected, call>>

\* init_new_fat_sectors: one new sector of FAT 0 is zeroed
InitNewFatSector ==
    /\ pc = "init_fat"
    /\ Install(step(Cur))
    /\ UNCHANGED <<run_start, attempts, crashes, death, image0, expected, call>>

\* sync_fat_copies: one sector of FAT 0 is copied to another FAT
SyncFatCopySector ==
    /\ pc = "sync_fat"
    /\ Install(step(Cur))
    /\ UNCHANGED <<run_start, attempts, crashes, death, image0, expected, call>>

\* phase 2: the boot sector with the new sizes and the signature restored
WriteBootSector ==
    /\ pc = "write_boot"
    /\ Install(step(Cur))
    /\ UNCHANGED <<run_start, attempts, crashes, death, image0, expected, call>>

WriteBackupBootSector ==
    /\ pc = "write_backup"
    /\ Install(step(Cur))
    /\ UNCHANGED <<run_start, attempts, crashes, death, image0, expected, call>>

WriteFsinfo ==
    /\ pc = "write_fsinfo"
    /\ Install(step(Cur))
    /\ UNCHANGED <<run_start, attempts, crashes, death, image0, expected, call>>

ClearCheckpoint ==
    /\ pc = "clear_checkpoint"
    /\ Install(step(Cur))
    /\ UNCHANGED <<run_start, attempts, crashes, death, image0, expected, call>>

\* the final sync; resize_fat32 returns Ok
FinalSync ==
    /\ pc = "final_sync"
    /\ Install(step(Cur))
    /\ UNCHANGED <<run_start, attempts, crashes, death, image0, expected, call>>

\* the process is killed: every write it issued is on the device
Kill ==
    /\ pc # "idle"
    /\ crashes < MaxCrashes
    /\ Install(Return([Cur EXCEPT !.durable = disk], "killed"))
    /\ crashes' = crashes + 1
    /\ death' = [how |-> "kill", at |-> crash_point(Cur), attempt |-> attempts,
                 intact |-> OldFilesystemIntact(disk),
                 cp |-> checkpoint_on(disk, device_total), shrunk |-> FALSE]
    /\ UNCHANGED <<run_start, attempts, image0, expected, call>>

Next ==
    \/ StartResize
    \/ WriteCheckpoint
    \/ SyncCheckpoint
    \/ ShiftCluster
    \/ SyncShift
    \/ InvalidateBoot
    \/ SyncInvalidate
    \/ InitNewFatSector
    \/ SyncFatCopySector
    \/ WriteBootSector
    \/ WriteBackupBootSector
    \/ WriteFsinfo
    \/ ClearCheckpoint
    \/ FinalSync
    \/ Kill

Spec == Init /\ [][Next]_vars

(* ------------------------------ power loss ----------------------------- *)

\* the sectors written since the last completed sync
dirty(dur, dsk) == { s \in 1..Len(dsk) : s > Len(dur) \/ dsk[s] # dur[s] }

\* the device after a power loss in which exactly the writes to the sectors
\* `kept` had reached the medium
survivor(dur, dsk, kept) ==
    LET len == IF \E s \in kept : s > Len(dur)
                   THEN CHOOSE s \in kept : \A t \in kept : t <= s
               ELSE Len(dur)
    IN  [s \in 1..len |-> IF s \in kept THEN dsk[s]
                          ELSE IF s <= Len(dur) THEN dur[s] ELSE Zero]

\* power is lost: everything written before the last completed sync is on
\* the device, and any subset of what was written since
PowerLoss ==
    /\ pc # "idle"
    /\ crashes < MaxCrashes
    /\ \E kept \in SUBSET dirty(durable, disk) :
        LET d == survivor(durable, disk, kept)
        IN  /\ Install(Return([Cur EXCEPT !.disk = d, !.durable = d], "killed"))
            /\ death' = [how |-> "power", at |-> crash_point(Cur), attempt |-> attempts,
                         intact |-> OldFilesystemIntact(d),
                         cp |-> checkpoint_on(d, device_total), shrunk |-> FALSE]
    /\ crashes' = crashes + 1
    /\ UNCHANGED <<run_start, attempts, image0, expected, call>>

NextPowerLoss ==
    \/ Next
    \/ PowerLoss

SpecPowerLoss == Init /\ [][NextPowerLoss]_vars

(* --------------------------- a shrunken device ------------------------- *)

\* after a process death the device comes back with fewer sectors
ShrinkDevice ==
    /\ pc = "idle"
    /\ result = "killed"
    /\ ~death.shrunk
    /\ \E len \in 4..(Len(disk) - 1) :
        /\ disk' = SubSeq(disk, 1, len)
        /\ durable' = SubSeq(disk, 1, len)
    /\ death' = [death EXCEPT !.shrunk = TRUE]
    /\ UNCHANGED <<kind, pc, result, dry_run, boot, fsinfo, calculation, plan,
                   starting_phase, device_total, i, fat_num, nwrites, run_start,
                   attempts, crashes, image0, expected, call>>

NextShrink ==
    \/ Next
    \/ ShrinkDevice

SpecShrink == Init /\ [][NextShrink]_vars

(* -------------------------- crash safety (kill) ------------------------ *)

\* the first run was killed and the first run after that which is neither a
\* dry run nor refused for a mounted device has returned
RerunReturned ==
    /\ crashes = 1
    /\ ~death.shrunk
    /\ death.attempt = 1
    /\ pc = "idle"
    /\ ~dry_run
    /\ result \notin {"none", "killed", "DeviceMounted"}
    /\ \/ attempts = 1
       \/ attempts = 2 /\ nwrites > 0

\* the device holds the image one uninterrupted run makes of image0; the run
\* that found it complete may have said so with AlreadyMaxSize
Converged == result \in {"Ok", "AlreadyMaxSize"} /\ disk = expected.disk

\* C1: a resize that would succeed uninterrupted is killed after any device
\* write or sync; then the old filesystem is still on the device, or the next
\* run returns Ok and leaves the image of the uninterrupted run
C1_KillAnywhere ==
    (RerunReturned /\ death.how = "kill" /\ expected.result = "Ok") => (death.intact \/ Converged)

NamedCrashPoints ==
    {"after_checkpoint_start", "after_data_shift", "after_checkpoint_data_copied",
     "after_boot_invalidate", "after_fat_write", "after_checkpoint_fat_written"}

\* C2: a resize whose FAT must grow is killed at one of the six named crash
\* points; the next run on the same device returns Ok and the device is,
\* sector for sector, the image of the uninterrupted run
C2_NamedCrashPoints ==
    (/\ RerunReturned
     /\ death.how = "kill"
     /\ death.at \in NamedCrashPoints
     /\ expected.result = "Ok"
     /\ expected.calculation.fat_needs_growth) => Converged

(* ----------------------- the image after success ---------------------- *)

\* one run, neither dry nor interrupted, took image0 to the device as it is
\* now and returned Ok
ResizedUninterrupted ==
    /\ pc = "idle"
    /\ result = "Ok"
    /\ ~dry_run
    /\ attempts = 1
    /\ crashes = 0

\* cluster c of the filesystem on `now` holds what it held on `before`
same_content(c, before, now) ==
    LET old == BootSector_from_bytes(sector(before, 0))
        new == BootSector_from_bytes(sector(now, 0))
    IN  \A k \in 0..(old.spc - 1) :
            /\ readable(now, cluster_to_sector(new, c) + k, 1)
            /\ sector(now, cluster_to_sector(new, c) + k)
                   = sector(before, cluster_to_sector(old, c) + k)

\* C3: after a successful uninterrupted resize every cluster that was in use
\* holds, at the position the rewritten boot sector gives it, the bytes it
\* held at its old position
C3_ContentPreserved ==
    ResizedUninterrupted => \A c \in in_use(image0) : same_content(c, image0, disk)

\* C4: after a successful resize that wrote, the primary boot sector on the
\* device has total_sectors_32 = D (the sectors of the device the run was given),
\* fat_size_32 = the FAT size calculated for D and the signature 0xAA55, and
\* the backup boot sector matches it on the fields boot_sectors_match compares
C4_BootSectorsAfterSuccess ==
    (pc = "idle" /\ result = "Ok" /\ ~dry_run) =>
        LET b == BootSector_from_bytes(sector(disk, 0))
            D == Len(run_start)
        IN  /\ b.total = D
            /\ b.fatsz = calculate_fat_size(D, b.reserved, b.nf, b.spc, b.bps).v
            /\ b.fatsz = calculation.new_fat_size
            /\ b.sig = VALID_SIGNATURE
            /\ boot_sectors_match(b, BootSector_from_bytes(sector(disk, b.backup)))

\* a run resumed after a kill in the danger window has returned Ok with the
\* FAT grown
C4_Witness ==
    /\ pc = "idle" /\ result = "Ok" /\ ~dry_run
    /\ crashes = 1 /\ death.how = "kill" /\ death.at = "after_boot_invalidate"
    /\ calculation.fat_needs_growth
    /\ BootSector_from_bytes(sector(disk, 0)).fatsz
           > BootSector_from_bytes(sector(image0, 0)).fatsz

\* C5: a successful uninterrupted resize never reduces the number of data
\* clusters
C5_DataClustersNeverDecrease ==
    ResizedUninterrupted =>
        data_clusters(BootSector_from_bytes(sector(disk, 0)))
            >= data_clusters(BootSector_from_bytes(sector(image0, 0)))

(* -------------------------- runs that do not write --------------------- *)

\* C7: a dry run issues no device write, whatever state the device is in; the
\* device after the call is the device before it
C7_DryRunWritesNothing ==
    (dry_run /\ pc = "idle" /\ result # "none") => (nwrites = 0 /\ disk = run_start)

\* a dry run has returned Ok on a device an interrupted resize left with its
\* boot sector invalidated
C7_Witness ==
    /\ dry_run /\ pc = "idle" /\ result = "Ok"
    /\ crashes = 1
    /\ ~is_signature_valid(BootSector_from_bytes(sector(disk, 0)))
    /\ calculation.fat_needs_growth

NoWriteErrors ==
    {"DeviceMounted", "BootSectorValidation", "InvalidFAT32", "UnsupportedSectorSize",
     "BackupMismatch", "FSInfoValidation", "ShrinkNotSupported", "AlreadyMaxSize",
     "Calculation", "CheckpointCorrupted", "InvalidatedFilesystem", "ResizeSizeMismatch"}

\* a run on the device an interrupted resize left has returned BackupMismatch
C8_Witness ==
    /\ pc = "idle" /\ ~dry_run /\ result = "BackupMismatch"
    /\ crashes = 1
    /\ disk # image0

\* C8: a run that returns one of the listed errors has issued no write and the
\* device is as it was before the call; and once a run has returned, an error
\* included, nothing is written until another run is started
C8_ErrorsWriteNothing ==
    [][/\ (pc' = "idle" /\ result' \in NoWriteErrors) =>
              (nwrites' = 0 /\ disk' = run_start')
       /\ pc = "idle" => disk' = disk]_vars

(* ------------------------- crash safety (power) ----------------------- *)

\* C6: power is lost at any point of a resize that would succeed
\* uninterrupted, with any subset of the writes issued since the last
\* completed sync on the device; the next run returns Ok and leaves the image
\* of the uninterrupted run
C6_PowerLossAnywhere ==
    (RerunReturned /\ death.how = "power" /\ expected.result = "Ok") => Converged

(* ------------------------------- startup ------------------------------ *)

\* the current run is neither a dry run nor refused for a mounted device and
\* is past its startup checks, or has returned
Started_run ==
    /\ ~dry_run
    /\ result \notin {"none", "killed", "DeviceMounted"}

\* what the last sector of the device held when the current run began
last_sector_at_start == from_bytes(sector(run_start, Len(run_start) - 1))

\* C9: a run that finds the boot signature zeroed and no checkpoint with the
\* right magic and version in the last device sector (or no sector beyond
\* total_sectors) returns InvalidatedFilesystem; a run that finds the signature
\* valid and a valid checkpoint in the last device sector resumes from that
\* checkpoint's phase and sizes and does not calculate a fresh resize
C9_StartupRecovery ==
    Started_run =>
        LET b == BootSector_from_bytes(sector(run_start, 0))
            last == last_sector_at_start
        IN  /\ (/\ b.sig = 0
                /\ \/ Len(run_start) <= b.total
                   \/ (last.err = "none" /\ ~last.cp.some))
               => result = "InvalidatedFilesystem"
            /\ (b.sig = VALID_SIGNATURE /\ last.err = "none" /\ last.cp.some)
               => /\ result \notin {"AlreadyMaxSize", "ShrinkNotSupported", "Calculation"}
                  /\ pc # "idle" =>
                        /\ starting_phase = last.cp.phase
                        /\ calculation.new_total_sectors = last.cp.new_total_sectors

\* C10: a resize to N sectors was interrupted with its checkpoint on the
\* device, and the device then presents fewer than N sectors; the next run
\* returns ResizeSizeMismatch and writes nothing
C10_ShrunkenDevice ==
    (/\ Started_run
     /\ crashes = 1
     /\ death.shrunk
     /\ death.cp.some
     /\ Len(run_start) < death.cp.new_total_sectors) =>
        (result = "ResizeSizeMismatch" /\ nwrites = 0 /\ disk = run_start)

(* ------------------------- the checkpoint sector ----------------------- *)

\* C11: on a device that was larger than its filesystem when the behaviour
\* began, at every moment before, during and after a resize (a kill
\* included) the last sector of the device, where the checkpoint is stored,
\* lies outside the declared filesystem: whenever the boot sector on the
\* device has a valid signature its total_sectors_32 is less than the number
\* of sectors of the device
C11_CheckpointSectorOutsideFilesystem ==
    LET b0 == BootSector_from_bytes(sector(image0, 0))
        b == BootSector_from_bytes(sector(disk, 0))
    IN  (is_signature_valid(b0) /\ total_sectors(b0) < Len(image0)) =>
            (is_signature_valid(b) => total_sectors(b) < Len(disk))

(* ------------------- library functions called on their own ------------- *)

\* a boot sector as validate_boot_sector accepts it
CalcBoot(g) ==
    [k |-> "boot", sig |-> VALID_SIGNATURE, bps |-> g.bps, spc |-> g.spc,
     reserved |-> g.reserved, nf |-> g.nf, rootent |-> 0, tot16 |-> 0,
     media |-> MEDIA_FIXED, fat16 |-> 0, total |-> g.total, fatsz |-> g.fatsz,
     rootclus |-> 2, fsinfo |-> 1, backup |-> 2, label |-> 7]

CalcBoots ==
    { b \in { CalcBoot(g) : g \in [bps : {8, 16}, spc : {1, 2, 4}, nf : {1, 2},
                                   reserved : {1, 3}, fatsz : 1..3,
                                   total : 1..MaxCalcSectors] } :
        validate_boot_sector_impl(b, FALSE) = "ok" }

\* device sizes: everything around the filesystems and the sizes at u32::MAX
CalcDeviceSectors == (0..(MaxCalcSectors + 4)) \cup {U32_MAX - 1, U32_MAX, U32_MAX + 1}

CalcCalls ==
    [fn : {"calculate_new_size"}, boot : CalcBoots, device_sectors : CalcDeviceSectors,
     done : {FALSE}, ret : {[err |-> "none", calc |-> NoCalculation]}]

\* the checkpoints handed to to_bytes, with the sector size of the device
CodecCalls ==
    { [fn |-> "to_bytes",
       cp |-> ResizeCheckpoint(c.phase, c.ot, c.nt, c.of, c.nf),
       sector_size |-> c.s, done |-> FALSE]
      : c \in [phase : {Started, DataCopied, FatWritten}, ot : {0, 7}, nt : {1, U32_MAX},
               of : {2}, nf : {2, 3}, s : VALID_SECTOR_SIZES] }

\* bit k of v inverted
flip_bit(v, k) == IF (v \div 2^k) % 2 = 1 THEN v - 2^k ELSE v + 2^k

\* what can happen to a buffer between to_bytes and from_bytes: one bit of a
\* field inverted, another magic, the buffer cut short, or an unknown phase
\* stored with its proper CRC
Damages ==
    [what : {"phase"}, bit : {0, 1, 7}]
        \cup [what : {"pad"}, bit : {0, 15}]
        \cup [what : {"old_total_sectors", "new_total_sectors", "old_fat_size",
                      "new_fat_size"}, bit : {0, 29}]
        \cup [what : {"crc"}, bit : {0, 31}]
        \cup [what : {"version"}, bit : {0, 1}]
        \cup [what : {"magic", "forge_phase"}, bit : {0}]
        \cup [what : {"truncate"}, bit : {0, CHECKPOINT_BYTES - 1}]

Damaged(data, dmg) ==
    CASE dmg.what = "phase" -> [data EXCEPT !.phase = flip_bit(@, dmg.bit)]
      [] dmg.what = "pad" -> [data EXCEPT !.pad = flip_bit(@, dmg.bit)]
      [] dmg.what = "old_total_sectors" ->
            [data EXCEPT !.old_total_sectors = flip_bit(@, dmg.bit)]
      [] dmg.what = "new_total_sectors" ->
            [data EXCEPT !.new_total_sectors = flip_bit(@, dmg.bit)]
      [] dmg.what = "old_fat_size" -> [data EXCEPT !.old_fat_size = flip_bit(@, dmg.bit)]
      [] dmg.what = "new_fat_size" -> [data EXCEPT !.new_fat_size = flip_bit(@, dmg.bit)]
      [] dmg.what = "crc" -> [data EXCEPT !.crc = <<"bit inverted", dmg.bit, @>>]
      [] dmg.what = "version" -> [data EXCEPT !.version = flip_bit(@, dmg.bit)]
      [] dmg.what = "magic" -> [data EXCEPT !.magic = "FAT32RSY"]
      [] dmg.what = "forge_phase" ->
            [data EXCEPT !.phase = 3,
                         !.crc = crc32(data.magic, data.version, 3, data.pad,
                                       data.old_total_sectors, data.new_total_sectors,
                                       data.old_fat_size, data.new_fat_size)]
      [] dmg.what = "truncate" -> [k |-> "bytes", len |-> dmg.bit]

\* the device with the reserved high bits of every FAT entry set to hi
WithReservedBits(d, hi) ==
    [j \in 1..Len(d) |->
        IF d[j].k = "fat"
            THEN [d[j] EXCEPT !.e = [n \in 1..Len(@) |-> <<hi, @[n][2]>>]]
        ELSE d[j]]

\* small filesystems with 2 FAT sectors per copy whose FAT entries carry
\* reserved bits
FatDevices ==
    { WithReservedBits(
          ImageOf([spc |-> 1, nf |-> c.nf, n |-> 2, fatsz |-> 2, slack |-> 0],
                  [used |-> c.used, dev |-> 5 + 2 * c.nf, unknown |-> FALSE,
                   kind |-> "block", what |-> "none"]).disk,
          c.hi)
      : c \in [nf : {1, 2}, used : {{2}, {2, 3}}, hi : {0, 5, 15}] }

\* FAT entry values: free, end of chain, and values with high bits of their own
FatValues == {<<0, 0>>, <<0, EOC>>, <<10, 3>>}

\* the calls of the FAT table writers on a filesystem with boot sector b
FatCalls(b) ==
    [fn : {"write_fat_entry"}, cluster : 0..(fat_size(b) * (b.bps \div BytesPerEntry) - 1),
     value : FatValues, done : {FALSE}, ret : {"none"}]
    \cup
    { c \in [fn : {"write_fat_entries"}, fat_number : 0..(b.nf - 1),
             start_entry : 0..(fat_size(b) * (b.bps \div BytesPerEntry) - 1),
             entries : UNION { [1..n -> FatValues] : n \in 1..3 },
             done : {FALSE}, ret : {"none"}] :
        c.start_entry + Len(c.entries) <= fat_size(b) * (b.bps \div BytesPerEntry) }

\* the FAT tables of `len` entries read_fat_table can return: the two
\* reserved entries, then entries that are free, in use, or free with
\* reserved high bits set
PlanFats(len) ==
    { [j \in 1..len |->
          IF j = 1 THEN <<0, EOC - 7>> ELSE IF j = 2 THEN <<0, EOC>> ELSE f[j]]
      : f \in [3..len -> {FreeEntry, <<0, EOC>>, <<5, 0>>}] }

\* the filesystems whose plans are examined, each with a device size for
\* which its FAT must grow
PlanGeometries ==
    { g \in { c \in CalcBoots : c.bps = 8 /\ c.reserved = 3 } \X CalcDeviceSectors :
        /\ calculate_new_size(g[1], g[2]).err = "none"
        /\ calculate_new_size(g[1], g[2]).calc.fat_needs_growth }

\* resize_fat32 plans the data shift of a filesystem whose FAT must grow:
\* the boot sector, its FAT and the calculation for a larger device
PlanCalls ==
    { [fn |-> "plan_relocation", boot |-> q[1][1], fat |-> q[2],
       calc |-> calculate_new_size(q[1][1], q[1][2]).calc, done |-> FALSE,
       ret |-> relocation_plan(q[1][1], <<>>, 2, 2)]
      : q \in { r \in PlanGeometries
                       \X UNION { PlanFats(n * (8 \div BytesPerEntry)) : n \in 1..3 } :
                  Len(r[2]) = fat_size(r[1][1]) * (r[1][1].bps \div BytesPerEntry) } }

LibCalls == CalcCalls \cup CodecCalls

\* the process is idle and one library call is about to be made
InitLib ==
    /\ \/ /\ disk = <<Zero>>
          /\ call \in LibCalls
       \/ /\ disk = <<Zero>>
          /\ call \in PlanCalls
       \/ /\ disk \in FatDevices
          /\ call \in FatCalls(BootSector_from_bytes(sector(disk, 0)))
    /\ durable = disk
    /\ kind = "block"
    /\ pc = "idle"
    /\ result = "none"
    /\ dry_run = FALSE
    /\ boot = NotABoot
    /\ fsinfo = NotAnFSInfo
    /\ calculation = NoCalculation
    /\ plan = <<>>
    /\ starting_phase = Started
    /\ device_total = 0
    /\ i = 0
    /\ fat_num = 0
    /\ nwrites = 0
    /\ run_start = disk
    /\ attempts = 0
    /\ crashes = 0
    /\ death = NoDeath
    /\ image0 = disk
    /\ expected = [disk |-> disk, result |-> "none", calculation |-> NoCalculation]

\* calculate_new_size(boot, device_sectors) returns
CalculateNewSize ==
    /\ call.fn = "calculate_new_size"
    /\ ~call.done
    /\ call' = [call EXCEPT !.ret = calculate_new_size(call.boot, call.device_sectors),
                            !.done = TRUE]
    /\ UNCHANGED <<disk, durable, kind, pc, result, dry_run, boot, fsinfo, calculation,
                   plan, starting_phase, device_total, i, fat_num, nwrites, run_start,
                   attempts, crashes, death, image0, expected>>

\* cp.to_bytes(sector_size) returns; the buffer is kept for from_bytes
ToBytes ==
    /\ call.fn = "to_bytes"
    /\ call' = [fn |-> "from_bytes", data |-> to_bytes(call.cp, call.sector_size),
                cp |-> call.cp, sector_size |-> call.sector_size, damages |-> <<>>,
                done |-> FALSE, ret |-> [err |-> "none", cp |-> None]]
    /\ UNCHANGED <<disk, durable, kind, pc, result, dry_run, boot, fsinfo, calculation,
                   plan, starting_phase, device_total, i, fat_num, nwrites, run_start,
                   attempts, crashes, death, image0, expected>>

\* the buffer is damaged before it is parsed, at most twice and in different
\* places
Damage ==
    /\ call.fn = "from_bytes"
    /\ ~call.done
    /\ call.data.k = "cp"
    /\ Len(call.damages) < 2
    /\ \E dmg \in Damages :
        /\ \A j \in 1..Len(call.damages) : call.damages[j].what # dmg.what
        /\ call' = [call EXCEPT !.data = Damaged(@, dmg),
                                !.damages = Append(@, dmg)]
    /\ UNCHANGED <<disk, durable, kind, pc, result, dry_run, boot, fsinfo, calculation,
                   plan, starting_phase, device_total, i, fat_num, nwrites, run_start,
                   attempts, crashes, death, image0, expected>>

\* ResizeCheckpoint::from_bytes(data) returns
FromBytes ==
    /\ call.fn = "from_bytes"
    /\ ~call.done
    /\ call' = [call EXCEPT !.ret = from_bytes(call.data), !.done = TRUE]
    /\ UNCHANGED <<disk, durable, kind, pc, result, dry_run, boot, fsinfo, calculation,
                   plan, starting_phase, device_total, i, fat_num, nwrites, run_start,
                   attempts, crashes, death, image0, expected>>

\* write_fat_entry(device, boot, cluster, value) returns
WriteFatEntry ==
    /\ call.fn = "write_fat_entry"
    /\ ~call.done
    /\ LET w == write_fat_entry(disk, kind, BootSector_from_bytes(sector(disk, 0)),
                                call.cluster, call.value)
       IN  /\ disk' = w.disk
           /\ call' = [call EXCEPT !.done = TRUE, !.ret = IF w.ok THEN "Ok" ELSE "Io"]
    /\ UNCHANGED <<durable, kind, pc, result, dry_run, boot, fsinfo, calculation,
                   plan, starting_phase, device_total, i, fat_num, nwrites, run_start,
                   attempts, crashes, death, image0, expected>>

\* write_fat_entries(device, boot, fat_number, start_entry, entries) returns
WriteFatEntries ==
    /\ call.fn = "write_fat_entries"
    /\ ~call.done
    /\ LET w == write_fat_entries(disk, kind, BootSector_from_bytes(sector(disk, 0)),
                                  call.fat_number, call.start_entry, call.entries)
       IN  /\ disk' = w.disk
           /\ call' = [call EXCEPT !.done = TRUE, !.ret = IF w.ok THEN "Ok" ELSE "Io"]
    /\ UNCHANGED <<durable, kind, pc, result, dry_run, boot, fsinfo, calculation,
                   plan, starting_phase, device_total, i, fat_num, nwrites, run_start,
                   attempts, crashes, death, image0, expected>>

\* plan_relocation(device, boot, fat, first_affected, last_affected, _) returns
PlanRelocation ==
    /\ call.fn = "plan_relocation"
    /\ ~call.done
    /\ call' = [call EXCEPT !.ret = relocation_plan(call.boot, call.fat,
                                                    call.calc.first_affected_cluster,
                                                    call.calc.last_affected_cluster),
                            !.done = TRUE]
    /\ UNCHANGED <<disk, durable, kind, pc, result, dry_run, boot, fsinfo, calculation,
                   plan, starting_phase, device_total, i, fat_num, nwrites, run_start,
                   attempts, crashes, death, image0, expected>>

NextLib ==
    \/ PlanRelocation
    \/ CalculateNewSize
    \/ ToBytes
    \/ Damage
    \/ FromBytes
    \/ WriteFatEntry
    \/ WriteFatEntries

SpecLib == InitLib /\ [][NextLib]_vars

(* ------------------------------ size calculation ----------------------- *)

\* the cluster count of a filesystem of D sectors with the geometry of b and
\* the FAT size the specification's formula gives
clusters_for(b, D) ==
    LET tmp1 == D - b.reserved
        tmp2 == (b.bps \div 4) * b.spc + b.nf \div 2
    IN  (D - b.reserved - b.nf * CeilDiv(tmp1, tmp2)) \div b.spc

\* C12: calculate_new_size(boot, D) returns ShrinkNotSupported iff
\* D < total_sectors, AlreadyMaxSize iff D = total_sectors, Calculation iff D
\* exceeds u32::MAX or D > total_sectors and the new cluster count is below
\* the FAT32 floor, and otherwise Ok with new_total_sectors = D, the old sizes
\* of the boot sector and new_data_clusters =
\* (D - reserved - num_fats * new_fat_size) / sectors_per_cluster
C12_CalculateNewSize ==
    (call.fn = "calculate_new_size" /\ call.done) =>
        LET b == call.boot
            D == call.device_sectors
            r == call.ret
        IN  /\ r.err \in {"none", "ShrinkNotSupported", "AlreadyMaxSize", "Calculation"}
            /\ r.err = "ShrinkNotSupported" <=> D < total_sectors(b)
            /\ r.err = "AlreadyMaxSize" <=> D = total_sectors(b)
            /\ r.err = "Calculation" <=>
                   (D > U32_MAX \/ (D > total_sectors(b) /\ clusters_for(b, D) < MinFat32Clusters))
            /\ r.err = "none" =>
                   /\ r.calc.new_total_sectors = D
                   /\ r.calc.old_total_sectors = total_sectors(b)
                   /\ r.calc.old_fat_size = fat_size(b)
                   /\ r.calc.new_data_clusters =
                          (D - b.reserved - b.nf * r.calc.new_fat_size) \div b.spc

\* a calculation for a device of u32::MAX sectors has succeeded with the FAT
\* grown
C12_Witness ==
    /\ call.fn = "calculate_new_size" /\ call.done
    /\ call.device_sectors = U32_MAX
    /\ call.ret.err = "none"
    /\ call.ret.calc.fat_needs_growth

\* C13: whenever calculate_new_size succeeds the new FAT has an entry for
\* every cluster of the resized filesystem:
\* new_fat_size * (bytes_per_sector / 4) >= new_data_clusters + 2
C13_FatNeverUndersized ==
    (call.fn = "calculate_new_size" /\ call.done /\ call.ret.err = "none") =>
        call.ret.calc.new_fat_size * (call.boot.bps \div BytesPerEntry)
            >= call.ret.calc.new_data_clusters + 2

(* ---------------------------- checkpoint codec ------------------------- *)

\* C14: for every checkpoint cp and sector size s, to_bytes(cp, s) has length
\* s and is zero after the record, and from_bytes of it returns Ok(Some(cp'))
\* with cp' equal to cp in phase, old_total_sectors, new_total_sectors,
\* old_fat_size and new_fat_size
C14_CheckpointRoundTrip ==
    (call.fn = "from_bytes" /\ call.damages = <<>>) =>
        /\ byte_len(call.data) = call.sector_size
        /\ \A j \in 1..Len(call.data.tail) : call.data.tail[j] = 0
        /\ call.done =>
            /\ call.ret.err = "none"
            /\ call.ret.cp.some
            /\ call.ret.cp.phase = call.cp.phase
            /\ call.ret.cp.old_total_sectors = call.cp.old_total_sectors
            /\ call.ret.cp.new_total_sectors = call.cp.new_total_sectors
            /\ call.ret.cp.old_fat_size = call.cp.old_fat_size
            /\ call.ret.cp.new_fat_size = call.cp.new_fat_size

\* a FatWritten checkpoint with different FAT sizes has gone through a buffer
\* of the largest sector size
C14_Witness ==
    /\ call.fn = "from_bytes" /\ call.done /\ call.damages = <<>>
    /\ call.sector_size = 64
    /\ call.cp.phase = FatWritten
    /\ call.cp.old_fat_size # call.cp.new_fat_size
    /\ call.ret.cp.some

\* the fields of bytes 9..32 of the record
FieldsAfterVersion ==
    {"phase", "pad", "old_total_sectors", "new_total_sectors", "old_fat_size",
     "new_fat_size", "crc"}

\* C15: from_bytes returns Ok(None) exactly when the buffer is shorter than a
\* record or its magic or version differ; Err(CheckpointCorrupted) exactly
\* when magic and version match and the stored CRC differs from the CRC of the
\* record's bytes or the phase byte is not 0, 1 or 2; and Ok(Some(record)) with
\* the fields of the buffer otherwise.  One inverted bit after the version
\* byte of a valid checkpoint gives Err(CheckpointCorrupted)
C15_FromBytesClassification ==
    (call.fn = "from_bytes" /\ call.done) =>
        LET d == call.data
            r == call.ret
            is_none == r.err = "none" /\ ~r.cp.some
            is_corrupted == r.err = "CheckpointCorrupted"
            is_some == r.err = "none" /\ r.cp.some
            unrecognized ==
                \/ byte_len(d) < CHECKPOINT_BYTES
                \/ d.magic # CHECKPOINT_MAGIC
                \/ d.version # CHECKPOINT_VERSION
            bad == \/ d.crc # crc32(d.magic, d.version, d.phase, d.pad,
                                    d.old_total_sectors, d.new_total_sectors,
                                    d.old_fat_size, d.new_fat_size)
                   \/ d.phase \notin {0, 1, 2}
        IN  /\ is_none <=> unrecognized
            /\ is_corrupted <=> (~unrecognized /\ bad)
            /\ is_some <=> (~unrecognized /\ ~bad)
            /\ is_some =>
                  r.cp = ResizeCheckpoint(d.phase, d.old_total_sectors,
                                          d.new_total_sectors, d.old_fat_size,
                                          d.new_fat_size)
            /\ (Len(call.damages) = 1 /\ call.damages[1].what \in FieldsAfterVersion)
                  => is_corrupted

\* a checkpoint whose phase byte had bit 0 inverted, so that it reads as
\* another phase, has been refused
C15_Witness ==
    /\ call.fn = "from_bytes" /\ call.done
    /\ call.damages = <<[what |-> "phase", bit |-> 0]>>
    /\ call.cp.phase = Started
    /\ call.data.phase = DataCopied
    /\ call.ret.err = "CheckpointCorrupted"

(* ------------------------------ FAT entry writes ----------------------- *)

\* the entries a finished FAT write was asked to store: <<copy, index, value>>
entries_written ==
    LET b == BootSector_from_bytes(sector(image0, 0))
    IN  IF call.fn = "write_fat_entry"
            THEN { <<n, call.cluster, call.value>> : n \in 0..(b.nf - 1) }
        ELSE { <<call.fat_number, call.start_entry + j - 1, call.entries[j]>>
               : j \in 1..Len(call.entries) }

\* entry number e of FAT copy n on device d
fat_entry_on(d, n, e) ==
    LET b == BootSector_from_bytes(sector(d, 0))
    IN  read_fat_table(d, b, n)[e + 1]

\* C16: every FAT entry write (write_fat_entry, write_fat_entry_with_size and
\* the sector read-modify-write of write_fat_entries) keeps the top 4 bits of
\* the entry that was on the device: after writing v to entry c the stored
\* entry is (old & 0xF0000000) | (v & 0x0FFFFFFF) in every FAT copy written,
\* and no other entry changes
C16_FatWritePreservesReservedBits ==
    (call.fn \in {"write_fat_entry", "write_fat_entries"} /\ call.done /\ call.ret = "Ok") =>
        LET b == BootSector_from_bytes(sector(image0, 0))
        IN  \A n \in 0..(b.nf - 1) :
            \A e \in 0..(fat_size(b) * (b.bps \div BytesPerEntry) - 1) :
                IF \E w \in entries_written : w[1] = n /\ w[2] = e
                    THEN \A w \in entries_written :
                            (w[1] = n /\ w[2] = e) =>
                                fat_entry_on(disk, n, e)
                                    = <<fat_entry_on(image0, n, e)[1], w[3][2]>>
                ELSE fat_entry_on(disk, n, e) = fat_entry_on(image0, n, e)

(* ------------------------ size calculation round trip ------------------ *)

\* one uninterrupted run of resize_fat32 (dry or not) on the valid image
\* image0 returned Ok: the device now holds resize(I, D)
ResizeSucceeded ==
    /\ pc = "idle"
    /\ result = "Ok"
    /\ run_start = image0
    /\ crashes = 0
    /\ validate_boot_sector_impl(BootSector_from_bytes(sector(image0, 0)), FALSE) = "ok"

\* calculate_new_size on the filesystem of device d, for a device of D sectors
size_calculation_of(d, D) ==
    calculate_new_size(BootSector_from_bytes(sector(d, 0)), D)

\* C17 as stated: for every valid image I and device size D for which resize
\* succeeds, calculate_new_size(I, D) and calculate_new_size(resize(I, D), D)
\* return the same SizeCalculation record
C17_RoundTripAsStated ==
    ResizeSucceeded =>
        size_calculation_of(disk, Len(image0)) = size_calculation_of(image0, Len(image0))

\* C17: for every valid image I and device size D for which resize succeeds
\* and writes, calculate_new_size(I, D) returns a SizeCalculation and
\* calculate_new_size(resize(I, D), D) returns AlreadyMaxSize, the resized
\* boot sector holding exactly that calculation's new_total_sectors and
\* new_fat_size; the two calls return the same record only after a dry run,
\* which leaves the image as it was
C17_RoundTrip ==
    ResizeSucceeded =>
        LET before == size_calculation_of(image0, Len(image0))
            after == size_calculation_of(disk, Len(image0))
            b == BootSector_from_bytes(sector(disk, 0))
        IN  /\ before.err = "none"
            /\ IF dry_run THEN after = before
               ELSE /\ after.err = "AlreadyMaxSize"
                    /\ total_sectors(b) = before.calc.new_total_sectors
                    /\ fat_size(b) = before.calc.new_fat_size

C17_Witness ==
    /\ ResizeSucceeded
    /\ ~dry_run
    /\ size_calculation_of(image0, Len(image0)).calc.fat_needs_growth
    /\ size_calculation_of(disk, Len(image0)).err = "AlreadyMaxSize"

(* ------------------------- the resize command -------------------------- *)

\* read_boot_sector: the sector size check, then the strict validation;
\* signature_0x0000 says that the error text holds "Invalid boot signature: 0x0000"
read_boot_sector(d) ==
    LET b == BootSector_from_bytes(sector(d, 0))
        vb == validate_boot_sector_impl(b, FALSE)
    IN  IF Len(d) = 0 THEN [err |-> "Io", signature_0x0000 |-> FALSE, boot |-> NotABoot]
        ELSE IF b.bps \notin VALID_SECTOR_SIZES
            THEN [err |-> "UnsupportedSectorSize", signature_0x0000 |-> FALSE,
                  boot |-> NotABoot]
        ELSE IF vb # "ok"
            THEN [err |-> vb, signature_0x0000 |-> b.sig = 0, boot |-> NotABoot]
        ELSE [err |-> "none", signature_0x0000 |-> FALSE, boot |-> b]

\* get_fs_info: the fields of FSInfoReport the command looks at
get_fs_info(d) ==
    LET r == read_boot_sector(d)
        b == r.boot
        failed == [err |-> "Io", signature_0x0000 |-> FALSE, backup_matches |-> FALSE,
                   can_grow |-> FALSE]
    IN  IF r.err # "none"
            THEN [failed EXCEPT !.err = r.err, !.signature_0x0000 = r.signature_0x0000]
        ELSE IF ~readable(d, b.backup, 1) THEN failed
        ELSE IF ~readable(d, b.fsinfo, 1) THEN failed
        ELSE IF validate_fsinfo(FSInfo_from_bytes(sector(d, b.fsinfo))) # "ok"
            THEN [failed EXCEPT
                     !.err = validate_fsinfo(FSInfo_from_bytes(sector(d, b.fsinfo)))]
        ELSE [err |-> "none", signature_0x0000 |-> FALSE,
              backup_matches |->
                  boot_sectors_match(b, BootSector_from_bytes(sector(d, b.backup))),
              can_grow |-> Len(d) > total_sectors(b)]

\* main, Commands::Resize, up to its call of resize_fat32: which way it goes
resize_command(d, root, dry, force) ==
    LET info == get_fs_info(d)
    IN  IF ~root /\ ~dry /\ ~force THEN "bail: run as root"
        ELSE IF info.err = "none"
            THEN IF ~info.can_grow THEN "bail: already at maximum size"
                 ELSE IF ~info.backup_matches /\ ~force THEN "bail: use --force"
                 ELSE "resize_fat32"
        ELSE IF info.signature_0x0000 THEN "resize_fat32"
        ELSE "bail: failed to read filesystem info"

\* `fat32expander resize [--dry-run] [--force] <device>` is run, by root or not:
\* everything up to the first device write of resize_fat32, or to its exit
ResizeCommand ==
    /\ pc = "idle"
    /\ \E root \in BOOLEAN, dry \in BOOLEAN, force \in BOOLEAN, mounted \in BOOLEAN :
        LET way == resize_command(disk, root, dry, force)
            m == IF way = "resize_fat32" THEN resize_fat32(Cur, dry, mounted)
                 ELSE Return(Cur, way)
        IN  /\ m.pc # "idle" => attempts < MaxRuns
            /\ Install(m)
            /\ attempts' = IF m.pc # "idle" THEN attempts + 1 ELSE attempts
            /\ call' = [fn |-> "resize", force |-> force, way |-> way]
    /\ run_start' = disk
    /\ UNCHANGED <<crashes, death, image0, expected>>

NextCommand ==
    \/ ResizeCommand
    \/ WriteCheckpoint
    \/ SyncCheckpoint
    \/ ShiftCluster
    \/ SyncShift
    \/ InvalidateBoot
    \/ SyncInvalidate
    \/ InitNewFatSector
    \/ SyncFatCopySector
    \/ WriteBootSector
    \/ WriteBackupBootSector
    \/ WriteFsinfo
    \/ ClearCheckpoint
    \/ FinalSync
    \/ Kill

\* the command is run on the smallest filesystems, sound or defective
InitCommand ==
    /\ Init
    /\ LET b == BootSector_from_bytes(sector(image0, 0))
       IN  /\ b.spc = 1
           /\ b.nf * b.fatsz + MinFat32Clusters + 3 >= b.total

SpecCommand == InitCommand /\ [][NextCommand]_vars

\* the command was given --force on a device whose primary boot sector is
\* valid and whose backup boot sector differs from it on a geometry field
ForcedOverMismatch ==
    LET b == BootSector_from_bytes(sector(run_start, 0))
    IN  /\ call.fn = "resize"
        /\ call.force
        /\ pc = "idle"
        /\ crashes = 0
        /\ validate_boot_sector_impl(b, FALSE) = "ok"
        /\ readable(run_start, b.backup, 1)
        /\ ~boot_sectors_match(b, BootSector_from_bytes(sector(run_start, b.backup)))

\* C18: with --force and a valid boot signature, a mismatch between primary
\* and backup boot sector on geometry fields does not abort the resize: the
\* command does not end on the mismatch (and so goes on to complete the
\* resize); without --force the same mismatch aborts before any write
C18_ForceOverridesBackupMismatch ==
    /\ ForcedOverMismatch =>
           result \notin {"BackupMismatch", "bail: use --force"}
    /\ (call.fn = "resize" /\ ~call.force /\ call.way = "bail: use --force") =>
           disk = run_start

(* ----------------------- order of the data shift ----------------------- *)

\* the sector ranges [a, a + len) and [c, c + len) have a sector in common
ranges_overlap(a, c, len) == a < c + len /\ c < a + len

\* the first run of resize_fat32 on the device, not interrupted so far, is in
\* execute_relocation and about to execute move i of its plan
InFirstShift ==
    /\ pc = "shift"
    /\ attempts = 1
    /\ crashes = 0

\* C19: in a single uninterrupted execute_relocation of a plan produced by
\* plan_relocation the moves are in strictly descending cluster number; when
\* a move writes [to_sector, to_sector + spc), every in-use cluster whose old
\* sector range overlaps that interval has already been read by its own move;
\* so each move reads the original content of its cluster
C19_DescendingShift ==
    InFirstShift =>
        LET mv == plan[i]
            old == BootSector_from_bytes(sector(run_start, 0))
        IN  /\ \A j \in 1..(Len(plan) - 1) :
                   plan[j].from_cluster > plan[j + 1].from_cluster
            /\ \A c \in in_use(run_start) :
                   ranges_overlap(cluster_to_sector(old, c), mv.to_sector, old.spc) =>
                       \E j \in 1..i : plan[j].from_cluster = c
            /\ (readable(run_start, mv.from_sector, old.spc)
                    /\ readable(disk, mv.from_sector, old.spc)) =>
                   read_sectors(disk, mv.from_sector, old.spc)
                       = read_sectors(run_start, mv.from_sector, old.spc)

\* an earlier move has written onto the old position of another cluster in
\* use, which had been read before, and the run is about to move a further one
C19_Witness ==
    /\ InFirstShift
    /\ i > 1
    /\ readable(disk, plan[i].from_sector, boot.spc)
    /\ \E j \in 1..(i - 1) : \E c \in in_use(run_start) :
           /\ c # plan[j].from_cluster
           /\ ranges_overlap(cluster_to_sector(BootSector_from_bytes(sector(run_start, 0)), c),
                             plan[j].to_sector, boot.spc)

(* ------------------------- redo of the data shift ---------------------- *)

\* every move of the plan has its destination holding what its source held
\* on device `before`
shift_complete(before) ==
    \A j \in 1..Len(plan) : \A k \in 0..(boot.spc - 1) :
        /\ readable(disk, plan[j].to_sector + k, 1)
        /\ sector(disk, plan[j].to_sector + k) = sector(before, plan[j].from_sector + k)

\* the first run was killed in phase 0 with its Started checkpoint on the
\* device; the second run resumed from phase Started and has executed the
\* whole plan again
ShiftRedone ==
    /\ pc = "sync_shift"
    /\ attempts = 2
    /\ crashes = 1
    /\ death.how = "kill"
    /\ death.attempt = 1
    /\ death.cp.some
    /\ death.cp.phase = Started
    /\ starting_phase = Started

\* C20: the phase-0 data shift is idempotent under redo: running
\* execute_relocation on the same plan a second time, after a complete or a
\* partial first pass (a run resumed from checkpoint phase Started), leaves
\* every in-use cluster's shifted position holding that cluster's original
\* content
C20_ShiftIdempotentUnderRedo ==
    ShiftRedone => shift_complete(image0)

(* ------------------------ the old filesystem in phase 0 ---------------- *)

\* the first run on the device, not interrupted, is in phase 0: its Started
\* checkpoint is written and its DataCopied checkpoint is not
InPhase0 ==
    /\ pc \in {"sync_started", "shift", "sync_shift", "checkpoint_data_copied"}
    /\ attempts = 1
    /\ crashes = 0

\* C21: throughout phase 0, at every point of the data-shift loop, the old
\* filesystem stays intact on the device: the primary boot sector keeps its
\* signature and geometry, the FAT is unchanged and every cluster in use
\* still holds its original bytes at its old sector position
C21_OldFilesystemIntactInPhase0 ==
    InPhase0 => OldFilesystemIntact(disk)

(* --------------------------- the relocation plan ----------------------- *)

\* C22: the shift used by plan_relocation equals the growth of the FAT
\* region: for FAT growth of k sectors per FAT, new_first_data_sector is
\* old_first_data_sector + k * num_fats and every move has to_sector =
\* new_first_data_sector + (c - 2) * sectors_per_cluster, for every
\* sectors_per_cluster
C22_ShiftEqualsFatGrowth ==
    (call.fn = "plan_relocation" /\ call.done) =>
        LET b == call.boot
            nfds == first_data_sector(b) + call.calc.fat_growth_sectors * b.nf
        IN  /\ call.ret.new_first_data_sector = nfds
            /\ \A j \in 1..Len(call.ret.moves) :
                   call.ret.moves[j].to_sector
                       = nfds + (call.ret.moves[j].from_cluster - 2) * b.spc

\* the plan of the finished call has exactly one move for every cluster of
\* `clusters`, none for any other, each with to_cluster = from_cluster = c and
\* from_sector the old position of c, and total_bytes = moves * bytes_per_cluster
plan_moves_exactly(clusters) ==
    LET b == call.boot
        moves == call.ret.moves
    IN  /\ \A c \in clusters : Cardinality({ j \in 1..Len(moves) : moves[j].from_cluster = c }) = 1
        /\ \A j \in 1..Len(moves) :
               /\ moves[j].from_cluster \in clusters
               /\ moves[j].to_cluster = moves[j].from_cluster
               /\ moves[j].from_sector
                      = first_data_sector(b) + (moves[j].from_cluster - 2) * b.spc
        /\ call.ret.total_bytes = Len(moves) * b.bps * b.spc

\* the clusters from..to that have a FAT entry whose low 28 bits are not zero
allocated_between(from, to) ==
    { c \in from..to : c < Len(call.fat) /\ call.fat[c + 1][2] # 0 }

\* C23 as stated: plan_relocation records exactly one move for every cluster
\* c with first_affected <= c <= old_data_clusters + 2 (inclusive) whose FAT
\* entry has non-zero low 28 bits and none for any other cluster
C23_PlanRangeAsStated ==
    (call.fn = "plan_relocation" /\ call.done) =>
        plan_moves_exactly(allocated_between(call.calc.first_affected_cluster,
                                             data_clusters(call.boot) + 2))

\* C23: plan_relocation records exactly one move for every cluster c with
\* first_affected <= c <= old_data_clusters + 1 (the last cluster of the
\* filesystem) that has a FAT entry with non-zero low 28 bits, and no move for
\* any free cluster or any cluster outside that range; every move has
\* to_cluster = from_cluster = c and from_sector = old_first_data_sector +
\* (c-2)*sectors_per_cluster, and total_bytes = moves * bytes_per_cluster
C23_PlanRange ==
    (call.fn = "plan_relocation" /\ call.done) =>
        plan_moves_exactly(allocated_between(call.calc.first_affected_cluster,
                                             data_clusters(call.boot) + 1))

\* a plan of two moves or more from a FAT with a free entry whose high bits
\* are set inside the range and an allocated entry just beyond the last cluster
C23_Witness ==
    /\ call.fn = "plan_relocation"
    /\ call.done
    /\ Len(call.ret.moves) >= 2
    /\ data_clusters(call.boot) + 2 < Len(call.fat)
    /\ \E c \in 2..(data_clusters(call.boot) + 1) : call.fat[c + 1] = <<5, 0>>
    /\ call.fat[data_clusters(call.boot) + 3] = <<0, EOC>>

(* ------------------------ the shift and the checkpoint ----------------- *)

\* execute_relocation, in the first run on a valid image, is about to issue
\* the write of move i
ShiftWritePending ==
    /\ InFirstShift
    /\ run_start = image0
    /\ i \in 1..Len(plan)
    /\ validate_boot_sector_impl(BootSector_from_bytes(sector(image0, 0)), FALSE) = "ok"

\* C24: no write issued by the data shift touches the checkpoint sector or
\* leaves the device: every sector written by execute_relocation has an index
\* below D - 1, the last device sector
C24_ShiftWritesBelowCheckpoint ==
    ShiftWritePending => plan[i].to_sector + boot.spc <= device_total - 1

(* ----------------------------- write ordering -------------------------- *)

\* the last device sector, as of the last completed sync, holds a checkpoint
\* of the given phase
synced_checkpoint(phase) ==
    LET cp == checkpoint_on(durable, device_total)
    IN  cp.some /\ cp.phase = phase

\* the sectors of the FAT region of the grown filesystem
fat_region ==
    first_fat_sector(boot)..(first_fat_sector(boot) + boot.nf * calculation.new_fat_size - 1)

\* what is on the device, and what is synced, at each write of a run that
\* grows the FAT
WritesInOrder ==
    calculation.fat_needs_growth =>
        /\ pc = "shift" /\ i = 1 => durable = disk /\ synced_checkpoint(Started)
        /\ pc = "checkpoint_data_copied" => durable = disk /\ i = Len(plan)
        /\ pc = "invalidate" => durable = disk /\ synced_checkpoint(DataCopied)
        /\ pc \in {"init_fat", "sync_fat"} =>
               /\ sector(durable, 0).k = "boot"
               /\ sector(durable, 0).sig = 0
        /\ pc = "write_boot" => durable = disk /\ synced_checkpoint(FatWritten)
        /\ pc = "final_sync" => sector(disk, device_total - 1) = Zero

\* from the write of checkpoint{FatWritten} on, a run writes nothing in the
\* FAT region, and the Ok return leaves every write synced
NoFatWriteAfterFatWritten ==
    /\ (/\ calculation.fat_needs_growth
        /\ pc \in {"checkpoint_fat_written", "sync_fat_written", "write_boot", "write_backup",
                   "write_fsinfo", "clear_checkpoint", "final_sync"})
           => /\ pc' \notin {"init_fat", "sync_fat"}
              /\ \A s \in fat_region : s < Len(disk) => sector(disk', s) = sector(disk, s)
    /\ (pc = "final_sync" /\ pc' = "idle" /\ result' = "Ok") => durable' = disk'

last_device_sector == IF pc = "idle" THEN Len(disk) ELSE device_total

\* the primary boot sector on the device has its signature zeroed
SignatureZeroed ==
    /\ sector(disk, 0).k = "boot"
    /\ sector(disk, 0).sig = 0

\* the behaviour started from a valid filesystem
StartedValid ==
    validate_boot_sector_impl(BootSector_from_bytes(sector(image0, 0)), FALSE) = "ok"

\* C26: under process-kill semantics, with any number of crashes and resumed
\* runs, whenever the primary boot signature on the device is 0x0000 the last
\* device sector holds a valid checkpoint whose phase is DataCopied or
\* FatWritten
C26_DangerWindow ==
    (StartedValid /\ SignatureZeroed) =>
        LET cp == checkpoint_on(disk, last_device_sector)
        IN  cp.some /\ cp.phase \in {DataCopied, FatWritten}

(* ------------------------------ resumed runs --------------------------- *)

\* the positions of a run in phase 0: checkpoint{Started}, the data shift,
\* checkpoint{DataCopied}
Phase0Steps ==
    {"checkpoint_started", "sync_started", "shift", "sync_shift",
     "checkpoint_data_copied", "sync_data_copied"}

\* the positions of a run in phase 1: the invalidating boot write, the FAT
\* writes, checkpoint{FatWritten}
Phase1Steps ==
    {"invalidate", "sync_invalidate", "init_fat", "sync_fat",
     "checkpoint_fat_written", "sync_fat_written"}

\* a run that found a checkpoint stays out of the phases the checkpoint says
\* are complete
SkipsCompletedPhases ==
    /\ starting_phase = DataCopied => pc \notin Phase0Steps
    /\ starting_phase = FatWritten => pc \notin (Phase0Steps \cup Phase1Steps)

\* a run that finds a checkpoint on the device and gets as far as writing
\* starts where the checkpoint's phase says
ResumesAtCheckpointPhase ==
    LET cp == checkpoint_on(disk, Len(disk))
    IN  (pc = "idle" /\ pc' # "idle" /\ cp.some) =>
            /\ starting_phase' = cp.phase
            /\ cp.phase = Started => pc' = "checkpoint_started"
            /\ cp.phase = DataCopied => pc' = "invalidate"
            /\ cp.phase = FatWritten => pc' = "write_boot"

\* C27: a resumed run skips completed phases: with a DataCopied checkpoint at
\* startup it issues no data-shift write and no checkpoint{Started} write; with
\* a FatWritten checkpoint it additionally issues no invalidating boot write,
\* no FAT-region write and no checkpoint write and goes directly to the
\* phase-2 metadata update; with a Started checkpoint all phases are executed
C27_ResumeSkipsCompletedPhases ==
    []SkipsCompletedPhases /\ [][ResumesAtCheckpointPhase]_vars

\* a run resumed from a DataCopied checkpoint is writing the FAT
C27_Witness ==
    /\ starting_phase = DataCopied
    /\ crashes >= 1
    /\ death.cp.some
    /\ death.cp.phase = DataCopied
    /\ pc \in {"init_fat", "sync_fat"}

(* ------------------------------ the grown FATs ------------------------- *)

\* filesystems in whose FAT no cluster is marked in use, on devices larger
\* than the filesystem
UnallocatedImages ==
    UNION { { ImageOf(g, c) :
                c \in [used : {{}}, dev : (BootOf(g).total + 1)..MaxDevSectors,
                       unknown : {FALSE}, kind : {"block", "file"}, what : {"none"}] }
            : g \in Geometries }

InitUnallocated ==
    \E img \in UnallocatedImages :
        /\ disk = img.disk
        /\ durable = img.disk
        /\ kind = img.kind
        /\ pc = "idle"
        /\ result = "none"
        /\ dry_run = FALSE
        /\ boot = NotABoot
        /\ fsinfo = NotAnFSInfo
        /\ calculation = NoCalculation
        /\ plan = <<>>
        /\ starting_phase = Started
        /\ device_total = 0
        /\ i = 0
        /\ fat_num = 0
        /\ nwrites = 0
        /\ run_start = img.disk
        /\ attempts = 0
        /\ crashes = 0
        /\ death = NoDeath
        /\ image0 = img.disk
        /\ expected = LET e == run_to_end(resize_fat32(Idle(img.disk, img.kind), FALSE, FALSE))
                      IN  [disk |-> e.disk, result |-> e.result,
                           calculation |-> e.calculation]
        /\ call = NoCall

\* with an empty plan resize_fat32 goes from its calculations to phase 2
NextUnallocated ==
    \/ StartResize
    \/ WriteBootSector
    \/ WriteBackupBootSector
    \/ WriteFsinfo
    \/ ClearCheckpoint
    \/ FinalSync
    \/ Kill

SpecUnallocated == InitUnallocated /\ [][NextUnallocated]_vars

\* the filesystem image0 held when the behaviour started
boot0 == BootSector_from_bytes(sector(image0, 0))

\* FAT copy k of the grown filesystem on d: new_fat_size sectors starting at
\* first_fat_sector + k * new_fat_size, the first old_fat_size of them equal
\* to the original FAT 0 and the others zero
grown_fat_copy(d, k) ==
    LET start == first_fat_sector(boot0) + k * calculation.new_fat_size
    IN  /\ readable(d, start, calculation.new_fat_size)
        /\ \A j \in 0..(calculation.new_fat_size - 1) :
               sector(d, start + j)
                   = IF j < calculation.old_fat_size
                         THEN sector(image0, first_fat_sector(boot0) + j)
                     ELSE Zero

\* a successful resize, not a dry run, grew the FAT
GrowthSucceeded ==
    /\ ResizeSucceeded
    /\ ~dry_run
    /\ calculation.new_fat_size > calculation.old_fat_size

\* C28: whenever a successful resize grows the FAT, the device has, for every
\* FAT copy k in 0..num_fats-1, a copy of new_fat_size sectors starting at
\* first_fat_sector + k*new_fat_size; all copies are identical; the first
\* old_fat_size sectors of each equal the original FAT 0 and the sectors
\* old_fat_size..new_fat_size-1 are all zero, for every FAT content
C28_GrownFatCopies ==
    GrowthSucceeded => \A k \in 0..(boot0.nf - 1) : grown_fat_copy(disk, k)

(* --------------------------- the FSInfo free count --------------------- *)

\* the free-cluster count in the FSInfo sector of the filesystem on d
free_count_on(d) ==
    FSInfo_from_bytes(sector(d, BootSector_from_bytes(sector(d, 0)).fsinfo)).free

\* a run, resumed or not, completed the resize of the valid filesystem the
\* behaviour started from
ResizeCompleted ==
    /\ pc = "idle"
    /\ result = "Ok"
    /\ ~dry_run
    /\ StartedValid
    /\ calculation.old_total_sectors = total_sectors(boot0)

\* the clusters the resize added to the filesystem
clusters_gained ==
    LET new == data_clusters(BootSector_from_bytes(sector(disk, 0)))
        old == data_clusters(boot0)
    IN  IF new > old THEN new - old ELSE 0

\* C29: after a successful resize, uninterrupted or resumed from any phase,
\* the FSInfo free-cluster count is 0xFFFFFFFF if it was 0xFFFFFFFF before, and
\* otherwise min(0xFFFFFFFF, old_free + max(0, new_data_clusters -
\* old_data_clusters)) with old_free the count before the resize began: the
\* increment is applied exactly once
C29_FreeCountUpdatedOnce ==
    ResizeCompleted =>
        free_count_on(disk) =
            IF free_count_on(image0) = UNKNOWN_FREE THEN UNKNOWN_FREE
            ELSE IF free_count_on(image0) + clusters_gained > U32_MAX THEN U32_MAX
            ELSE free_count_on(image0) + clusters_gained

\* a resize that was interrupted and resumed has completed and gained clusters
C29_Witness ==
    /\ ResizeCompleted
    /\ crashes >= 1
    /\ clusters_gained > 0
    /\ free_count_on(image0) # UNKNOWN_FREE

(* --------------------------- a resize without FAT growth --------------- *)

\* a run that is not a dry run found that the FAT need not grow, and is
\* writing or has returned Ok
NoGrowthRun ==
    /\ ~dry_run
    /\ pc # "idle" \/ result = "Ok"
    /\ ~calculation.fat_needs_growth
    /\ calculation.new_total_sectors = Len(run_start)

\* the sectors phase 2 writes: the primary boot sector, the backup boot
\* sector, the FSInfo sector and the last sector of the device
phase2_sectors ==
    LET b == BootSector_from_bytes(sector(run_start, 0))
    IN  {0, b.backup, b.fsinfo, Len(run_start) - 1}

\* C30: when the calculated new_fat_size does not exceed the old fat_size, a
\* resize_fat32 that is not a dry run writes no checkpoint record, moves no
\* cluster data, never writes a boot sector with zeroed signature and writes
\* nothing in the FAT region; the only sectors it writes are the primary boot
\* sector, the backup boot sector, the FSInfo sector and the (zeroed) last
\* device sector
C30_NoGrowthWritesMetadataOnly ==
    NoGrowthRun =>
        LET b == BootSector_from_bytes(sector(run_start, 0))
            last == Len(run_start) - 1
        IN  /\ pc \notin (Phase0Steps \cup Phase1Steps)
            /\ Len(disk) = Len(run_start)
            /\ \A s \in (0..last) \ phase2_sectors : sector(disk, s) = sector(run_start, s)
            /\ \A s \in first_fat_sector(b)..(first_data_sector(b) - 1) :
                   sector(disk, s) = sector(run_start, s)
            /\ sector(disk, last) \in {sector(run_start, last), Zero}
            /\ sector(disk, 0).k = "boot"
            /\ sector(disk, 0).sig = VALID_SIGNATURE

\* a resize without FAT growth returned Ok after its four writes
C30_Witness ==
    /\ NoGrowthRun
    /\ pc = "idle"
    /\ nwrites = 4
    /\ disk # run_start
    /\ Len(run_start) > total_sectors(BootSector_from_bytes(sector(run_start, 0)))

(* --------------------------- a FAT larger than needed ------------------ *)

\* a successful resize, not a dry run, of a filesystem whose FAT is at least
\* as large as the size calculated for the device
SucceededWithoutGrowth ==
    /\ ResizeSucceeded
    /\ ~dry_run
    /\ fat_size(boot0) >= calculation.new_fat_size

\* C31: a resize never moves the data area without moving the data: for every
\* valid image whose fat_size_32 is greater than or equal to the calculated
\* new_fat_size, a successful resize leaves first_data_sector of the rewritten
\* boot sector equal to the original one: fat_size_32 is never decreased
C31_FatSizeNeverDecreased ==
    SucceededWithoutGrowth =>
        LET b == BootSector_from_bytes(sector(disk, 0))
        IN  /\ first_data_sector(b) = first_data_sector(boot0)
            /\ fat_size(b) >= fat_size(boot0)

(* --------------------------- states of the boot sector ----------------- *)

\* the geometry and signature of a boot sector
boot_state(b) == <<total_sectors(b), fat_size(b), b.sig>>

\* the three states the resize of image0 may leave the primary boot sector in
BootStates ==
    {<<total_sectors(boot0), fat_size(boot0), VALID_SIGNATURE>>,
     <<total_sectors(boot0), fat_size(boot0), 0>>,
     <<expected.calculation.new_total_sectors, expected.calculation.new_fat_size,
       VALID_SIGNATURE>>}

\* while the device has the size the resize was calculated for, the primary
\* boot sector on it is in one of the three states
BootInOneOfThreeStates ==
    (StartedValid /\ Len(disk) = Len(image0)) =>
        /\ sector(disk, 0).k = "boot"
        /\ boot_state(BootSector_from_bytes(sector(disk, 0))) \in BootStates

\* every write to sector 0 of a device that held a valid filesystem either
\* zeroes the signature and keeps the geometry, or writes the new geometry of
\* the running resize, both fields at once, with the signature valid
BootWritesAtomic ==
    LET b == BootSector_from_bytes(sector(disk, 0))
        c == BootSector_from_bytes(sector(disk', 0))
    IN  (StartedValid /\ sector(disk', 0) # sector(disk, 0)) =>
            /\ sector(disk', 0).k = "boot"
            /\ c.sig \in {0, VALID_SIGNATURE}
            /\ c.sig = 0 =>
                   total_sectors(c) = total_sectors(b) /\ fat_size(c) = fat_size(b)
            /\ (total_sectors(c) # total_sectors(b) \/ fat_size(c) # fat_size(b)) =>
                   /\ total_sectors(c) = calculation.new_total_sectors
                   /\ fat_size(c) = calculation.new_fat_size

checkpoint_sizes(cp) ==
    <<cp.old_total_sectors, cp.new_total_sectors, cp.old_fat_size, cp.new_fat_size>>

\* checkpoint record `later` may follow `earlier` in one resize
follows(earlier, later) ==
    (earlier.some /\ later.some) =>
        /\ later.phase >= earlier.phase
        /\ checkpoint_sizes(later) = checkpoint_sizes(earlier)

\* a step puts a checkpoint record in the last sector of the device: the
\* record follows the one that was there before the step, the one the run
\* found at startup and the one on the device when the process last died
CheckpointWrittenInOrder ==
    LET before == checkpoint_on(disk, last_device_sector)
        after == checkpoint_on(disk', device_total)
    IN  (StartedValid /\ pc # "idle" /\ after.some /\ after # before) =>
            /\ follows(before, after)
            /\ after.phase >= starting_phase
            /\ follows(death.cp, after)

\* C33: across one resize, including any number of crashes and resumed runs,
\* the sequence of checkpoint records present in the last device sector is
\* monotone: the phase never decreases and old_total_sectors,
\* new_total_sectors, old_fat_size and new_fat_size are identical in every
\* checkpoint written for that resize
C33_CheckpointsMonotone ==
    [][CheckpointWrittenInOrder]_vars

(* --------------------- the calculation of a resumed run ---------------- *)

\* the checkpoint the current run found at startup, if it found one
checkpoint_found ==
    check_for_incomplete_resize(run_start, BootSector_from_bytes(sector(run_start, 0)),
                                Len(run_start)).cp

\* the current run resumes an interrupted resize of a valid filesystem
Resumed ==
    /\ StartedValid
    /\ pc # "idle"
    /\ crashes >= 1
    /\ checkpoint_found.some

\* the fields of a SizeCalculation that drive the protocol
protocol_fields(c) ==
    <<c.old_total_sectors, c.new_total_sectors, c.old_fat_size, c.new_fat_size,
      c.new_data_clusters, c.fat_needs_growth, c.fat_growth_sectors,
      c.first_affected_cluster, c.last_affected_cluster>>

\* what calculate_new_size produced in the run that wrote the checkpoint: that
\* run saw the boot sector geometry still on the device and a device of
\* new_total_sectors sectors
interrupted_calculation ==
    calculate_new_size(BootSector_from_bytes(sector(run_start, 0)),
                       checkpoint_found.new_total_sectors)

\* C34: the SizeCalculation a resumed run rebuilds from the checkpoint and the
\* on-disk boot sector agrees with the one calculate_new_size produced in the
\* interrupted run on old_total_sectors, new_total_sectors, old_fat_size,
\* new_fat_size, new_data_clusters, fat_needs_growth, fat_growth_sectors,
\* first_affected_cluster and last_affected_cluster; hence the resumed run
\* plans the same shift as the interrupted one
C34_ResumedCalculationAgrees ==
    Resumed =>
        /\ interrupted_calculation.err = "none"
        /\ protocol_fields(calculation) = protocol_fields(interrupted_calculation.calc)
        /\ crashes = 1 =>
               plan = plan_relocation(boot0, read_fat_table(image0, boot0, 0),
                                      interrupted_calculation.calc.first_affected_cluster,
                                      interrupted_calculation.calc.last_affected_cluster)

\* a run resumed from a DataCopied checkpoint, with the rebuilt calculation,
\* is about to invalidate the boot sector
C34_Witness ==
    /\ Resumed
    /\ checkpoint_found.phase = DataCopied
    /\ pc = "invalidate"
    /\ calculation.last_affected_cluster > 2

(* --------------------------- the bytes a resize rewrites --------------- *)

\* sector `now` is sector `before` with nothing but total_sectors_32,
\* fat_size_32 and the signature rewritten
boot_frame(before, now) ==
    /\ now.k = "boot"
    /\ now = [before EXCEPT !.total = now.total, !.fatsz = now.fatsz, !.sig = now.sig]

\* sector `now` is sector `before` with nothing but the free count rewritten
fsinfo_frame(before, now) ==
    /\ now.k = "fsinfo"
    /\ now = [before EXCEPT !.free = now.free]

\* at every moment of a resize of a valid filesystem, interrupted and resumed
\* or not, the two sectors differ from the original in the documented fields
OnlyDocumentedFieldsDiffer ==
    StartedValid =>
        /\ boot_frame(sector(image0, 0), sector(disk, 0))
        /\ fsinfo_frame(sector(image0, boot0.fsinfo), sector(disk, boot0.fsinfo))
        /\ sector(disk, 0).sig \in {0, VALID_SIGNATURE}

RecoveryImages ==
    { img \in Images :
        LET e == run_to_end(resize_fat32(Idle(img.disk, img.kind), FALSE, FALSE))
        IN  /\ validate_boot_sector_impl(BootSector_from_bytes(sector(img.disk, 0)),
                                         FALSE) = "ok"
            /\ e.result = "Ok"
            /\ e.calculation.fat_needs_growth }

InitRecovery ==
    \E img \in RecoveryImages :
        /\ disk = img.disk
        /\ durable = img.disk
        /\ kind = img.kind
        /\ pc = "idle"
        /\ result = "none"
        /\ dry_run = FALSE
        /\ boot = NotABoot
        /\ fsinfo = NotAnFSInfo
        /\ calculation = NoCalculation
        /\ plan = <<>>
        /\ starting_phase = Started
        /\ device_total = 0
        /\ i = 0
        /\ fat_num = 0
        /\ nwrites = 0
        /\ run_start = img.disk
        /\ attempts = 0
        /\ crashes = 0
        /\ death = NoDeath
        /\ image0 = img.disk
        /\ expected = LET e == run_to_end(resize_fat32(Idle(img.disk, img.kind), FALSE, FALSE))
                      IN  [disk |-> e.disk, result |-> e.result,
                           calculation |-> e.calculation]
        /\ call = NoCall

\* the operator runs the tool, for the first time or again after a kill or a
\* failure, as often as it takes; in this specification attempts counts every
\* run, modulo MaxRecoveryRuns
Rerun ==
    /\ pc = "idle"
    /\ result # "Ok"
    /\ attempts' = (attempts % MaxRecoveryRuns) + 1

\* resize_fat32 on the unmounted device, not as a dry run: everything up to
\* its first device write
RunResize ==
    /\ Rerun
    /\ Install(resize_fat32(Cur, FALSE, FALSE))
    /\ run_start' = disk
    /\ UNCHANGED <<crashes, death, image0, expected, call>>

\* maybe_crash_at: the process exits at one of the six named points
KillAtNamedPoint ==
    /\ pc # "idle"
    /\ crash_point(Cur) # "elsewhere"
    /\ crashes < MaxRecoveryKills
    /\ Install(Return([Cur EXCEPT !.durable = disk], "killed"))
    /\ crashes' = crashes + 1
    /\ death' = [how |-> "kill", at |-> crash_point(Cur), attempt |-> attempts,
                 intact |-> OldFilesystemIntact(disk),
                 cp |-> checkpoint_on(disk, device_total), shrunk |-> FALSE]
    /\ UNCHANGED <<run_start, attempts, image0, expected, call>>

\* the device operations of the running process
ProcessStep ==
    \/ WriteCheckpoint
    \/ SyncCheckpoint
    \/ ShiftCluster
    \/ SyncShift
    \/ InvalidateBoot
    \/ SyncInvalidate
    \/ InitNewFatSector
    \/ SyncFatCopySector
    \/ WriteBootSector
    \/ WriteBackupBootSector
    \/ WriteFsinfo
    \/ ClearCheckpoint
    \/ FinalSync

NextRecovery ==
    \/ RunResize
    \/ ProcessStep
    \/ KillAtNamedPoint

\* a running process keeps issuing its device operations until it returns or
\* is killed, and after every kill or failure the tool is run again (every
\* step that satisfies Rerun is a step of RunResize, which is enabled exactly
\* when Rerun is)
SpecRecovery ==
    InitRecovery /\ [][NextRecovery]_vars /\ WF_vars(ProcessStep) /\ WF_attempts(Rerun)

\* a run returned Ok and left a filesystem that fills the device of D sectors,
\* with a valid signature and no checkpoint in the last device sector
Recovered ==
    /\ pc = "idle"
    /\ result = "Ok"
    /\ sector(disk, 0).k = "boot"
    /\ sector(disk, 0).sig = VALID_SIGNATURE
    /\ total_sectors(BootSector_from_bytes(sector(disk, 0))) = Len(image0)
    /\ sector(disk, Len(image0) - 1) = Zero

\* C36: from a valid image whose FAT must grow, killed any finite number of
\* times at the six named protocol points and re-run after each kill,
\* eventually a run returns Ok with the signature 0xAA55, total_sectors_32 = D
\* and the last device sector zeroed; no sequence of such kills leads to a
\* state from which every later run fails
C36_RecoveryTerminates == <>Recovered

(* --------------------------- the FAT size formula ---------------------- *)

\* F sectors of FAT hold an entry for every cluster of a filesystem of
\* `total` sectors, and the two reserved entries
fat_suffices(F, total, reserved, nf, spc, bps) ==
    F * (bps \div 4) >= (total - reserved - nf * F) \div spc + 2

\* the theoretical minimum FAT size: the least F that suffices
minimum_fat_size(total, reserved, nf, spc, bps) ==
    CHOOSE F \in 0..total :
        /\ fat_suffices(F, total, reserved, nf, spc, bps)
        /\ \A G \in 0..(F - 1) : ~fat_suffices(G, total, reserved, nf, spc, bps)

\* C37: calculate_fat_size returns exactly
\* ceil((total_sectors - reserved_sectors) /
\*      ((bytes_per_sector / 4) * sectors_per_cluster + num_fats / 2)),
\* and this value is at least the theoretical minimum FAT size and exceeds it
\* by at most one sector, for every valid geometry
C37_FatSizeWithinOneOfMinimum ==
    (/\ call.fn = "calculate_new_size"
     /\ call.done
     /\ call.ret.err = "none"
     /\ call.device_sectors <= MaxCalcSectors + 4) =>
        LET b == call.boot
            D == call.device_sectors
            v == call.ret.calc.new_fat_size
            least == minimum_fat_size(D, b.reserved, b.nf, b.spc, b.bps)
        IN  /\ v = CeilDiv(D - b.reserved, (b.bps \div 4) * b.spc + b.nf \div 2)
            /\ v >= least
            /\ v <= least + 1

====
